---- MODULE Spec2Model ----
(***************************************************************************)
(* Retraining orchestrator of tf_model/fastapi_server.py: the shared       *)
(* training_state record, the single-worker training_executor, the         *)
(* request handlers start_retraining / stop_retraining /                   *)
(* get_training_status, the SSE generator of stream_training_logs and the  *)
(* background function train_model_background.                             *)
(*                                                                         *)
(* Request handlers are coroutines of one event loop: between two awaits a *)
(* handler runs without any other handler interleaving (variable loop).    *)
(* The worker is a thread: it interleaves with handlers everywhere except  *)
(* inside a "with training_lock" block, which is one atomic step here.     *)
(*                                                                         *)
(* Model registry: select_model, the startup block that reads              *)
(* weights/active_model.json, and the detection endpoint as far as it      *)
(* reads the detector's defect model (SpecRegistry).  Paths are sequences  *)
(* of tokens, so that resolve(), startswith() and suffix are computed.     *)
(*                                                                         *)
(* Detection pipeline: detect_defects_two_stage with _segment_transformer, *)
(* _detect_defects and the severity ladder, the two YOLO models being      *)
(* black boxes whose answers are chosen from small sets (SpecPipeline).    *)
(*                                                                         *)
(* Dataset preparation: prepare_retraining_dataset with its process_image  *)
(* tasks under Semaphore(5), the retry loop of the download, the crop and  *)
(* the conversion of annotations to label lines.  The backend's answers    *)
(* are a constant of the behaviour, transient failures a budget (faults).  *)
(* SpecPrepare: one call with failures; SpecPrepareWide: six items;        *)
(* SpecLabels: one item with any annotations; SpecRerun: two calls.        *)
(*                                                                         *)
(* Each part has its own variables and its own specification; the actions  *)
(* of one part leave the variables of the others unchanged.                *)
(***************************************************************************)
EXTENDS Integers, Sequences, FiniteSets, TLC

\* ---------------------------------------------------------------- bounds
MaxStarts == 2      \* start requests issued in one behaviour
MaxEpochs == 2      \* largest request.epochs a request carries
MaxRegions == 2     \* candidate regions the transformer model sees in an image
MaxDefects == 2     \* candidate defects the defect model sees in a crop
MaxItems == 2       \* items the backend lists in the runs with failures
MaxFaults == 2      \* transient failures of the environment in one behaviour

\* ------------------------------------------------------------- constants
\* ThreadPoolExecutor(max_workers=1)
max_workers_doubled == 1 + 1
max_workers == 1

Workers == 1..max_workers
JobIds == 1..MaxStarts

\* List objects are kept in fixed slots, so that two states which differ
\* only in the addresses of their lists are one state: the list the record
\* holds, each worker's metrics_data while it is another object, the list a
\* stream copy holds while nothing else does, and the place of a list just
\* created.
RecordObj == 1
WorkerObj(w) == 1 + w
StreamObj == max_workers + 2
FreshObj == max_workers + 3
ObjIds == 1..FreshObj

Terminal == {"done", "error", "stopped"}
NoMetric == [epoch |-> 0, job |-> 0]

VARIABLES
    training_state,   \* the global dict; metrics holds a list object id
    writer,           \* ghost: the job whose worker last wrote current_epoch,
                      \* the one that wrote error, and the jobs that had
                      \* finished when the record was last reset
    heap,             \* list objects: id -> sequence of epoch metrics
    queue,            \* ThreadPoolExecutor work queue (configs, FIFO)
    workers,          \* executor threads: position and locals of the job run
    temp_dirs,        \* temp_training_* directories existing on disk
    fs,               \* new_dataset/ and "Transformer Defects/" on disk
    loop,             \* handler running on the event loop between awaits
    sreq,             \* the start request being handled (locals)
    nreq,             \* start requests received so far
    resp,             \* last HTTP response sent by start / stop / status
    stream            \* the SSE event_generator: position, locals, last event

training_vars ==
    <<training_state, writer, heap, queue, workers, temp_dirs, fs, loop,
      sreq, nreq, resp, stream>>

\* The model registry: detector.defect_model, active_model_info and the
\* sidecar weights/active_model.json.
VARIABLES
    detector,           \* the detector object: defect_model, defect_model_path
    active_model_info,  \* the global ActiveModel dict
    active_model_file,  \* contents of ACTIVE_MODEL_FILE on disk
    model_files,        \* files on disk, by canonical path
    model_lock,         \* holder of model_lock, "free" when nobody holds it
    boot,               \* phase of the process: import, main block, serving
    mreq,               \* the select request being handled (locals)
    vreq,               \* the detection request in flight
    mresp               \* last response of select / detection

registry_vars ==
    <<detector, active_model_info, active_model_file, model_files, model_lock,
      boot, mreq, vreq, mresp>>

\* One call of detector.detect_defects_two_stage: the coordinate and severity
\* pipeline, with the two YOLO models as black boxes.
VARIABLES
    ppc,                \* position of the call: idle, stage1, stage2, verdict, answered
    frame,              \* the call's arguments and the detector's two model slots
    stage1,             \* what _segment_transformer returned
    stage2,             \* what _detect_defects returned, and on which crop
    verdict             \* the TwoStageDetectionResult, or the HTTPException

pipeline_vars == <<ppc, frame, stage1, stage2, verdict>>

\* One call of prepare_retraining_dataset and the process_image tasks it
\* gathers.
VARIABLES
    prep,               \* locals of the call: position, counters, errors, outcome
    tasks,              \* per item: the locals of its process_image task
    semaphore,          \* free permits of Semaphore(5)
    new_dataset,        \* files under new_dataset/images and new_dataset/labels
    backend,            \* what the backend and the transformer model answer
    faults,             \* transient failures the environment may still cause
    reruns              \* calls finished so far, and the files the first one left

preparer_vars ==
    <<prep, tasks, semaphore, new_dataset, backend, faults, reruns>>

\* What the training endpoints and the worker never touch.
not_training == <<registry_vars, pipeline_vars, preparer_vars>>

\* What the registry endpoints never touch.
not_registry == <<training_vars, pipeline_vars, preparer_vars>>

\* What the detection pipeline never touches.
not_pipeline == <<training_vars, registry_vars, preparer_vars>>

\* What the dataset preparation never touches.
not_preparer == <<training_vars, registry_vars, pipeline_vars>>

vars == <<training_vars, registry_vars, pipeline_vars, preparer_vars>>

\* ------------------------------------------------------------ filesystem
FsStates ==
    { f \in [new_dataset : BOOLEAN,
             images : {"missing", "empty", "some"},
             labels : {"missing", "empty", "some"},
             base : BOOLEAN,
             base_train : BOOLEAN] :
        /\ (~f.new_dataset => f.images = "missing" /\ f.labels = "missing")
        /\ (~f.base => ~f.base_train) }

\* ----------------------------------------------------------- list objects
Last(s) == IF Len(s) = 0 THEN NoMetric ELSE s[Len(s)]

\* The slot of object o once the record, the workers and the stream hold
\* the references ts, wk, st (0 is "no list").
Slot(o, ts, wk) ==
    IF o = 0 THEN 0
    ELSE IF o = ts.metrics THEN RecordObj
    ELSE IF \E w \in Workers : wk[w].md = o
         THEN WorkerObj(CHOOSE w \in Workers : wk[w].md = o)
    ELSE StreamObj

MoveRecord(ts, wk) == [ts EXCEPT !.metrics = RecordObj]
MoveWorkers(ts, wk) ==
    [w \in Workers |-> [wk[w] EXCEPT !.md = Slot(wk[w].md, ts, wk)]]
MoveStream(ts, wk, st) ==
    [st EXCEPT !.snap.metrics = Slot(st.snap.metrics, ts, wk)]

\* The lists after the move; a list nobody references is collected.
MoveHeap(h, ts, wk, st) ==
    [n \in ObjIds |->
        IF \E o \in ObjIds :
              /\ o \in {ts.metrics, st.snap.metrics} \cup {wk[w].md : w \in Workers}
              /\ Slot(o, ts, wk) = n
        THEN h[CHOOSE o \in ObjIds :
                  /\ o \in {ts.metrics, st.snap.metrics} \cup {wk[w].md : w \in Workers}
                  /\ Slot(o, ts, wk) = n]
        ELSE << >>]

\* The next state once the references ts, wk, st and the lists h are settled.
Rebind(ts, wk, st, h) ==
    /\ training_state' = MoveRecord(ts, wk)
    /\ workers' = MoveWorkers(ts, wk)
    /\ stream' = MoveStream(ts, wk, st)
    /\ heap' = MoveHeap(h, ts, wk, st)

\* ---------------------------------------------------------------- records
IdleWorker ==
    [pc |-> "idle", job |-> 0, epochs |-> 0, ep |-> 0, md |-> 0, i |-> 0,
     warn |-> FALSE, exc |-> "None", base_model_path |-> << >>]

NoSnap == [status |-> "None", current_epoch |-> 0, metrics |-> 0]

NoEvent == [status |-> "None", current_epoch |-> 0, metrics |-> NoMetric]

NoReq ==
    [id |-> 0, pc |-> "none", epochs |-> 0, seen |-> "None",
     base_model_path |-> << >>]

\* ================================================================== paths
\* A path string is a sequence of tokens: pieces of names, the separator
\* and the parent entry "..". "weights/defects_old/best.pt" is
\* <<"weights", Sep, "defects", "_old", Sep, "best", ".pt">>.
Sep == "/"
Up == ".."

P_base == <<"weights", Sep, "defects", Sep, "best", ".pt">>
P_new == <<"weights", Sep, "updated_defect", Sep, "new", ".pt">>
P_sibling == <<"weights", Sep, "defects", "_old", Sep, "best", ".pt">>
P_passwd ==
    <<"weights", Sep, "defects", Sep, Up, Sep, Up, Sep, "etc", Sep, "passwd">>
P_outside ==
    <<"weights", Sep, "defects", Sep, Up, Sep, Up, Sep, "etc", Sep, "evil", ".pt">>
P_notes == <<"weights", Sep, "defects", Sep, "notes", ".txt">>
P_around ==
    <<"weights", Sep, "updated_defect", Sep, Up, Sep, "defects", Sep, "best", ".pt">>

\* Paths a select request or a sidecar record may carry.
RequestPaths ==
    {P_base, P_new, P_sibling, P_passwd, P_outside, P_notes, P_around}

\* The working directory of the process, as path segments.
CwdSegs == << <<"app">> >>

\* The segments of a path string: the runs of tokens between separators.
RECURSIVE Split(_)
Split(s) ==
    IF s = << >> THEN << << >> >>
    ELSE LET rest == Split(Tail(s))
         IN IF Head(s) = Sep THEN << << >> >> \o rest
            ELSE << <<Head(s)>> \o Head(rest) >> \o Tail(rest)

\* Path.resolve(): ".." removes the segment before it, empty segments go.
RECURSIVE Normalize(_, _)
Normalize(done, segs) ==
    IF segs = << >> THEN done
    ELSE IF Head(segs) = <<Up>>
         THEN Normalize(IF done = << >> THEN done
                        ELSE SubSeq(done, 1, Len(done) - 1), Tail(segs))
    ELSE IF Head(segs) = << >> THEN Normalize(done, Tail(segs))
    ELSE Normalize(Append(done, Head(segs)), Tail(segs))

\* str() of an absolute path: a separator before each segment.
RECURSIVE Join(_)
Join(segs) ==
    IF segs = << >> THEN << >>
    ELSE <<Sep>> \o Head(segs) \o Join(Tail(segs))

\* str(Path(p).resolve()) of a relative path p.
Resolve(p) == Join(Normalize(CwdSegs, Split(p)))

\* str.startswith
StartsWith(s, t) == Len(t) <= Len(s) /\ SubSeq(s, 1, Len(t)) = t

\* "tok in s" for a substring that is one token of the alphabet.
Contains(s, tok) == \E i \in 1..Len(s) : s[i] = tok

\* Path.suffix and Path.name
Suffix(p) ==
    IF p # << >> /\ p[Len(p)] \in {".pt", ".txt"} THEN p[Len(p)] ELSE ""
Name(p) == LET segs == Split(p) IN segs[Len(segs)]

\* Lines 1733-1736: the two whitelisted directories, resolved.
allowed_dirs ==
    {Resolve(<<"weights", Sep, "updated_defect">>),
     Resolve(<<"weights", Sep, "defects">>)}

\* Lines 1739-1742: the test select_model makes on the resolved path.
is_allowed(resolved_path) ==
    \E allowed_dir \in allowed_dirs : StartsWith(resolved_path, allowed_dir)

\* A canonical path lies below one of the two whitelisted directories.
IsDescendant(resolved_path) ==
    \E allowed_dir \in allowed_dirs :
        StartsWith(resolved_path, allowed_dir \o <<Sep>>)

\* Files that may be on disk, by canonical path.
CandidateFiles == {Resolve(p) : p \in RequestPaths}

\* The first alternative of lines 765-766, "../weights/defects/best.pt".
P_parent_base == <<Up, Sep, "weights", Sep, "defects", Sep, "best", ".pt">>

\* Every path string the service is handed or probes (<< >> is the empty
\* worker slot), with its canonical form, computed once.
KnownPaths == RequestPaths \cup {<< >>, P_parent_base}

Resolved == [p \in KnownPaths |-> Resolve(p)]

\* Path.exists()
Exists(p, files) == Resolved[p] \in files

\* Line 1532, the base_model_path entry of training_config:
\* request.base_model_path or "weights/defects/best.pt"; << >> is None.
training_config_base(request_base) ==
    IF request_base = << >> THEN P_base ELSE request_base

\* The work item of line 1558: the config as far as the worker uses it.
training_config(req) ==
    [id |-> req.id, epochs |-> req.epochs,
     base_model_path |-> training_config_base(req.base_model_path)]

\* Lines 763-770: the path handed to YOLO(): the configured one when it
\* exists, else the first of the two alternatives that exists, else the
\* configured one again.
base_model_path(configured, files) ==
    IF Exists(configured, files) THEN configured
    ELSE IF Exists(P_parent_base, files) THEN P_parent_base
    ELSE IF Exists(P_base, files) THEN P_base
    ELSE configured

\* ---------------------------------------------------- registry records
NoModel == << >>

\* active_model_info at module load, lines 202-208.
DefaultInfo ==
    [name |-> <<"best", ".pt">>, path |-> P_base, dir |-> "defect",
     loaded |-> FALSE, selected_at |-> 0]

\* The record written for a model loaded from model_path; selected_at is
\* 0 for None and 1 for a time.
InfoOf(model_path, stamp) ==
    [name |-> Name(model_path), path |-> model_path,
     dir |-> IF Contains(model_path, "updated_defect")
             THEN "updated_defect" ELSE "defects",
     loaded |-> TRUE, selected_at |-> stamp]

NoFile == [state |-> "absent", info |-> DefaultInfo]
NoSelect ==
    [pc |-> "none", path |-> << >>,
     before |-> [model |-> NoModel, info |-> DefaultInfo, file |-> NoFile]]
NoDetect == [pc |-> "none", at_start |-> NoModel]
NoAnswer == [op |-> "none", ok |-> FALSE, error |-> "None", model |-> NoModel]

\* The registry left alone: what the training specifications start from.
RegistryQuiet ==
    /\ detector = [transformer_model |-> FALSE, defect_model |-> NoModel,
                   defect_model_path |-> P_base]
    /\ active_model_info = DefaultInfo
    /\ active_model_file = NoFile
    /\ model_files = {}
    /\ model_lock = "free"
    /\ boot = "serving"
    /\ mreq = NoSelect
    /\ vreq = NoDetect
    /\ mresp = NoAnswer

\* =============================================================== pipeline
\* Coordinates are pixels, confidences are hundredths, severities are
\* thousandths (confidence * 1.0, 0.8, 0.5 as confidence * 10, 8, 5), so that
\* the comparisons of lines 427-434 are exact.
padding == 20

\* (width, height) of the images sent: one much larger than the padding, one
\* where the padded crop meets the border on every side.
Images == {<<100, 80>>, <<50, 50>>}

\* confidence_threshold: the default 0.25 (line 345) and a strict one.
Thresholds == {25, 70}

Max(a, b) == IF a >= b THEN a ELSE b
Min(a, b) == IF a <= b THEN a ELSE b

SeqsUpTo(S, n) == UNION {[1..k -> S] : k \in 0..n}

\* What a YOLO model may find in a picture of the given size: boxes inside
\* the picture, each with a confidence.
RegionBoxes(image) ==
    {<<x1, y[1], x2, y[2]>> :
        x1 \in {0, 25}, x2 \in {45, image[1]},
        y \in {<<0, image[2]>>, <<25, 45>>}}

\* model(image, conf=confidence_threshold): the boxes the model reports are
\* its candidates whose confidence is above the threshold, in scan order.
AboveThreshold(raw, conf) == SelectSeq(raw, LAMBDA r : r.conf > conf)

\* self.transformer_model(image, conf=...) (line 492): an answer or an
\* exception.
LocalizerAnswers(image, conf) ==
    {[raised |-> FALSE, boxes |-> AboveThreshold(raw, conf),
      candidates |-> Len(raw)] :
        raw \in SeqsUpTo([box : RegionBoxes(image), conf : {20, 60, 90}],
                         MaxRegions)}
    \cup {[raised |-> TRUE, boxes |-> << >>, candidates |-> 0]}

\* np.argmax(confidences) (line 504): the first index of the maximum.
argmax(boxes) ==
    CHOOSE i \in 1..Len(boxes) :
        /\ \A j \in 1..Len(boxes) : boxes[j].conf <= boxes[i].conf
        /\ \A j \in 1..(i - 1) : boxes[j].conf < boxes[i].conf

\* The padded region without the clamping of lines 522-525.
crop_bbox_unclamped(box, image) ==
    <<box[1] - padding, box[2] - padding, box[3] + padding, box[4] + padding>>

\* Lines 520-525: the region grown by the padding and clamped to the image.
crop_bbox(box, image) ==
    <<Max(0, box[1] - padding), Max(0, box[2] - padding),
      Min(image[1], box[3] + padding), Min(image[2], box[4] + padding)>>

\* image[y1_crop:y2_crop, x1_crop:x2_crop] (line 527): (width, height) of the
\* pixels handed to stage 2.
CropShape(cb) == <<cb[3] - cb[1], cb[4] - cb[2]>>

NoCrop == << >>
Stage1Status(s) ==
    [status |-> s, confidence |-> -1, bbox |-> << >>, crop_bbox |-> << >>,
     transformer_area |-> -1]

\* _segment_transformer (lines 485-541), on the answer the model gave.
segment_transformer(image, transformer_model, answer) ==
    IF ~transformer_model
    THEN [crop |-> NoCrop, info |-> Stage1Status("transformer_model_not_loaded")]
    ELSE IF answer.raised
    THEN [crop |-> NoCrop, info |-> Stage1Status("error")]
    ELSE IF Len(answer.boxes) = 0
    THEN [crop |-> NoCrop, info |-> Stage1Status("no_transformer_detected")]
    ELSE LET best == answer.boxes[argmax(answer.boxes)]
             box  == best.box
             cb   == crop_bbox(box, image)
         IN  [crop |-> CropShape(cb),
              info |-> [status |-> "transformer_detected",
                        confidence |-> best.conf,
                        bbox |-> box,
                        crop_bbox |-> cb,
                        transformer_area |->
                            (box[3] - box[1]) * (box[4] - box[2])]]

\* self.defect_classes (lines 267-274), each name as its words.
defect_classes ==
    << <<"Full", "Wire", "Overload", "PF">>,
       <<"Loose", "Joint", "F">>,
       <<"Loose", "Joint", "PF">>,
       <<"Point", "Overload", "F">>,
       <<"Point", "Overload", "PF">>,
       <<"Transformer", "Overload">> >>

\* Class ids the defect model may report: an overload, a loose joint, and an
\* id past the end of defect_classes (a model trained on more classes).
ClassIds == {0, 1, 7}

\* Line 573.
class_name(cls_id) ==
    IF cls_id < Len(defect_classes) THEN defect_classes[cls_id + 1]
    ELSE <<"Class_" \o ToString(cls_id)>>

\* Boxes the defect model may report on a crop: the whole crop, and a small
\* box near its top-left corner.
DefectBoxes(crop) == {<<0, 0, crop[1], crop[2]>>, <<5, 5, 15, 15>>}

\* self.defect_model(transformer_image, conf=...) (line 549).
ClassifierAnswers(crop, conf) ==
    {[raised |-> FALSE, boxes |-> AboveThreshold(raw, conf)] :
        raw \in SeqsUpTo([box : DefectBoxes(crop), conf : {30, 90},
                          cls : ClassIds], MaxDefects)}
    \cup {[raised |-> TRUE, boxes |-> << >>]}

\* defects.sort(key=lambda x: x['confidence'], reverse=True) (line 585): a
\* stable sort, entries of equal confidence keep their order.
RECURSIVE SortByConfidence(_)
SortByConfidence(ds) ==
    IF Len(ds) = 0 THEN << >>
    ELSE LET i == CHOOSE i \in 1..Len(ds) :
                      /\ \A j \in 1..Len(ds) :
                             ds[j].confidence <= ds[i].confidence
                      /\ \A j \in 1..(i - 1) :
                             ds[j].confidence < ds[i].confidence
             rest == [k \in 1..(Len(ds) - 1) |->
                         IF k < i THEN ds[k] ELSE ds[k + 1]]
         IN  <<ds[i]>> \o SortByConfidence(rest)

Stage2Status(s) == [status |-> s, defect_count |-> 0, classes_detected |-> {}]

\* _detect_defects (lines 543-595), on the answer the model gave.
detect_defects(defect_model, answer) ==
    IF ~defect_model
    THEN [defects |-> << >>, info |-> Stage2Status("defect_model_not_loaded")]
    ELSE IF answer.raised
    THEN [defects |-> << >>, info |-> Stage2Status("error")]
    ELSE IF Len(answer.boxes) = 0
    THEN [defects |-> << >>, info |-> Stage2Status("no_defects_detected")]
    ELSE LET found ==
                 [i \in 1..Len(answer.boxes) |->
                     LET b == answer.boxes[i] IN
                     [id |-> i - 1,
                      class_id |-> b.cls,
                      class_name |-> class_name(b.cls),
                      confidence |-> b.conf,
                      bbox |-> b.box,
                      area |-> (b.box[3] - b.box[1]) * (b.box[4] - b.box[2])]]
             defects == SortByConfidence(found)
         IN  [defects |-> defects,
              info |-> [status |-> "defects_detected",
                        defect_count |-> Len(defects),
                        classes_detected |->
                            {defects[i].class_name : i \in 1..Len(defects)}]]

\* "Overload" in name, "Loose Joint" in name (lines 410, 412).
HasWord(name, w) == \E i \in 1..Len(name) : name[i] = w
HasWords(name, w1, w2) ==
    \E i \in 1..(Len(name) - 1) : name[i] = w1 /\ name[i + 1] = w2

\* Lines 410-415, in thousandths.
severity(defect) ==
    IF HasWord(defect.class_name, "Overload") THEN defect.confidence * 10
    ELSE IF HasWords(defect.class_name, "Loose", "Joint")
    THEN defect.confidence * 8
    ELSE defect.confidence * 5

RECURSIVE total_severity(_)
total_severity(defects) ==
    IF Len(defects) = 0 THEN 0
    ELSE severity(Head(defects)) + total_severity(Tail(defects))

\* The ladder of lines 424-435 with the tests of 0.8 and 0.5 exchanged.
severity_level_high_first(status, total_detections, total) ==
    IF status # "transformer_detected" THEN "NO_TRANSFORMER"
    ELSE IF total_detections = 0 THEN "NORMAL"
    ELSE IF total > 500 * total_detections THEN "HIGH"
    ELSE IF total > 800 * total_detections THEN "CRITICAL"
    ELSE IF total > 300 * total_detections THEN "MEDIUM"
    ELSE "LOW"

\* The ladder of lines 424-435 with its first two tests exchanged.
severity_level_normal_first(status, total_detections, total) ==
    IF total_detections = 0 THEN "NORMAL"
    ELSE IF status # "transformer_detected" THEN "NO_TRANSFORMER"
    ELSE IF total > 800 * total_detections THEN "CRITICAL"
    ELSE IF total > 500 * total_detections THEN "HIGH"
    ELSE IF total > 300 * total_detections THEN "MEDIUM"
    ELSE "LOW"

\* Lines 424-435, with overall_severity = total / total_detections.
severity_level(status, total_detections, total) ==
    IF status # "transformer_detected" THEN "NO_TRANSFORMER"
    ELSE IF total_detections = 0 THEN "NORMAL"
    ELSE IF total > 800 * total_detections THEN "CRITICAL"
    ELSE IF total > 500 * total_detections THEN "HIGH"
    ELSE IF total > 300 * total_detections THEN "MEDIUM"
    ELSE "LOW"

\* Lines 398-405: the Detection of the response, built from a defect.
api_detection(defect) ==
    [class_id |-> defect.class_id,
     class_name |-> defect.class_name,
     confidence |-> defect.confidence,
     bbox |-> defect.bbox,
     area |-> defect.area]

\* Lines 608-619: where _overlay_results draws a defect on the original image.
overlay_box(defect, info) ==
    <<info.crop_bbox[1] + defect.bbox[1], info.crop_bbox[2] + defect.bbox[2],
      info.crop_bbox[1] + defect.bbox[3], info.crop_bbox[2] + defect.bbox[4]>>

NoFrame ==
    [image |-> <<0, 0>>, confidence_threshold |-> 0,
     transformer_model |-> FALSE, defect_model |-> FALSE]
NoStage1 == [crop |-> NoCrop, info |-> Stage1Status("none"),
             invoked |-> FALSE, candidates |-> 0, regions |-> 0]
NoStage2 == [defects |-> << >>, info |-> Stage2Status("none"),
             invoked |-> FALSE, input |-> NoCrop]
NoVerdict ==
    [raised |-> FALSE, detail |-> "None", success |-> FALSE,
     stage1_info |-> Stage1Status("none"), stage2_info |-> Stage2Status("none"),
     detections |-> << >>, overlay |-> << >>, total_detections |-> 0,
     severity_level |-> "None", severity_score |-> <<0, 1>>,
     confidence_threshold |-> 0, image_size |-> <<0, 0>>]

\* No detection call in progress: what the other specifications start from,
\* and where the pipeline starts.
PipelineQuiet ==
    /\ ppc = "idle"
    /\ frame = NoFrame
    /\ stage1 = NoStage1
    /\ stage2 = NoStage2
    /\ verdict = NoVerdict

\* ======================================================= dataset preparer
\* Annotation coordinates are numbers of the backend's JSON and need not be
\* whole pixels: lengths of the preparer are multiples of 1/SubPixel pixel.
\* Label values are millionths (round(value, 6)).
SubPixel == 100000
Px(n) == n * SubPixel

semaphore_permits == 5
max_retries == 3
retry_delay == 1

\* The image every item of the model has: 50 x 50 pixels.
ImageSize == <<Px(50), Px(50)>>
NoSize == << >>
NoRegion == << >>

\* Lines 1252-1257: the region grown by the padding and clamped to the image,
\* as <<x1_crop, y1_crop, x2_crop, y2_crop>>.
prepare_crop(box, size) ==
    <<Max(0, box[1] - Px(padding)), Max(0, box[2] - Px(padding)),
      Min(size[1], box[3] + Px(padding)), Min(size[2], box[4] + Px(padding))>>

\* n / d written with k decimals: <<the digits as a number, the remainder>>.
RECURSIVE Decimals(_, _, _)
Decimals(r, d, k) ==
    IF k = 0 THEN <<0, r>>
    ELSE LET t    == 10 * r
             rest == Decimals(t % d, d, k - 1)
         IN  <<(t \div d) * 10^(k - 1) + rest[1], rest[2]>>

\* round(n / d, 6) in millionths, for n >= 0 and d > 0 (lines 1392-1395).
round6(n, d) ==
    LET f == Decimals(n % d, d, 6)
    IN  (n \div d) * 1000000 + f[1] + (IF 2 * f[2] >= d THEN 1 ELSE 0)

\* An annotation of the backend; complete is FALSE when one of its four
\* coordinates is null, classId is -1 when it is null.
Annotation(x1, y1, x2, y2) ==
    [complete |-> TRUE, bboxX1 |-> x1, bboxY1 |-> y1, bboxX2 |-> x2,
     bboxY2 |-> y2, classId |-> 0, className |-> "Overload"]

\* yolo_line without the test of lines 1383-1386.
yolo_line_keep_empty(ann, crop_offset, dims) ==
    IF ~ann.complete THEN << >>
    ELSE
    LET adjusted_x1 == ann.bboxX1 - crop_offset[1]
        adjusted_y1 == ann.bboxY1 - crop_offset[2]
        adjusted_x2 == ann.bboxX2 - crop_offset[1]
        adjusted_y2 == ann.bboxY2 - crop_offset[2]
    IN  IF \/ adjusted_x2 <= 0 \/ adjusted_y2 <= 0
           \/ adjusted_x1 >= dims[1] \/ adjusted_y1 >= dims[2]
        THEN << >>
        ELSE
        LET x1 == Max(0, adjusted_x1)
            y1 == Max(0, adjusted_y1)
            x2 == Min(dims[1], adjusted_x2)
            y2 == Min(dims[2], adjusted_y2)
            w  == x2 - x1
            h  == y2 - y1
        IN  IF FALSE THEN << >>
            ELSE <<[class_identifier |->
                        [classId |-> ann.classId,
                         className |->
                             IF ann.classId # -1 THEN "" ELSE ann.className],
                    x_center |-> round6(2 * x1 + w, 2 * dims[1]),
                    y_center |-> round6(2 * y1 + h, 2 * dims[2]),
                    w_norm |-> round6(w, dims[1]),
                    h_norm |-> round6(h, dims[2])]>>

\* Lines 1352-1410: the label lines of one annotation, none or one.
yolo_line(ann, crop_offset, dims) ==
    IF ~ann.complete THEN << >>
    ELSE
    LET adjusted_x1 == ann.bboxX1 - crop_offset[1]
        adjusted_y1 == ann.bboxY1 - crop_offset[2]
        adjusted_x2 == ann.bboxX2 - crop_offset[1]
        adjusted_y2 == ann.bboxY2 - crop_offset[2]
    IN  IF \/ adjusted_x2 <= 0 \/ adjusted_y2 <= 0
           \/ adjusted_x1 >= dims[1] \/ adjusted_y1 >= dims[2]
        THEN << >>
        ELSE
        LET x1 == Max(0, adjusted_x1)
            y1 == Max(0, adjusted_y1)
            x2 == Min(dims[1], adjusted_x2)
            y2 == Min(dims[2], adjusted_y2)
            w  == x2 - x1
            h  == y2 - y1
        IN  IF w <= 0 \/ h <= 0 THEN << >>
            ELSE <<[class_identifier |->
                        [classId |-> ann.classId,
                         className |->
                             IF ann.classId # -1 THEN "" ELSE ann.className],
                    x_center |-> round6(2 * x1 + w, 2 * dims[1]),
                    y_center |-> round6(2 * y1 + h, 2 * dims[2]),
                    w_norm |-> round6(w, dims[1]),
                    h_norm |-> round6(h, dims[2])]>>

\* The loop of lines 1352-1410 over the annotations of the item.
RECURSIVE yolo_lines(_, _, _)
yolo_lines(annotations, crop_offset, dims) ==
    IF Len(annotations) = 0 THEN << >>
    ELSE yolo_line(Head(annotations), crop_offset, dims)
         \o yolo_lines(Tail(annotations), crop_offset, dims)

\* The characters written to a label file, a line or a line feed each.
LineFeed == [line_feed |-> TRUE]

\* '\n'.join(yolo_lines) + '\n' (line 1414).
RECURSIVE JoinLines(_)
JoinLines(lines) ==
    IF Len(lines) = 0 THEN << >>
    ELSE IF Len(lines) = 1 THEN <<lines[1]>>
    ELSE <<lines[1], LineFeed>> \o JoinLines(Tail(lines))

\* Lines 1349-1421: what is written to the label file.
label_text(annotations, crop_offset, dims) ==
    IF Len(annotations) > 0
    THEN JoinLines(yolo_lines(annotations, crop_offset, dims)) \o <<LineFeed>>
    ELSE << >>

\* ------------------------------------------------------- the environment
\* Items the backend may list: one more than the semaphore has permits.
ItemIds == 1..(semaphore_permits + 1)

\* The region the transformer model finds in every image that has one: its
\* padded crop is [5, 50] x [5, 50] pixels.
Region == <<Px(25), Px(25), Px(45), Px(45)>>

\* Annotations in original-image coordinates, named by where they lie with
\* respect to that crop.
AnnInside == Annotation(Px(10), Px(10), Px(20), Px(30))
AnnLeftOfCrop == Annotation(Px(1), Px(10), Px(4), Px(30))
AnnAcrossEdge == Annotation(Px(2), Px(10), Px(20), Px(30))
AnnSliver == Annotation(Px(2), Px(10), Px(5) + 1, Px(30))
AnnOnEdge == Annotation(Px(2), Px(10), Px(5), Px(30))
AnnInverted == Annotation(Px(30), Px(30), Px(20), Px(20))
AnnNoCoordinate == [AnnInside EXCEPT !.complete = FALSE]
AnnByName == [AnnInside EXCEPT !.classId = -1]

\* What the backend holds for one item and answers about it:
\*   listed, imageType   its entry in GET /api/images, if any
\*   reachable           GET /api/images/download/<fileName> delivers the image
\*   region              the box the transformer model finds in the image
\*   all_status, all     GET /api/annotations/all: status, and the entries
\*                       with this imageId
\*   image_status, image GET /api/annotations/image/<id>: status and body
Item(type, reachable, region, all_status, all, image_status, image) ==
    [listed |-> TRUE, imageType |-> type, reachable |-> reachable,
     region |-> region, all_status |-> all_status, all |-> all,
     image_status |-> image_status, image |-> image]

Unlisted ==
    [Item("None", FALSE, NoRegion, 404, << >>, 404, << >>)
        EXCEPT !.listed = FALSE]

\* The kinds of item of the runs with several items.
AnnotatedItem ==
    Item("ANNOTATED", TRUE, Region, 200, <<AnnInside>>, 200, <<AnnInside>>)
PlainItem ==
    Item("THERMAL", TRUE, Region, 200, <<AnnInside>>, 200, <<AnnInside>>)
OutsideItem ==
    Item("THERMAL", TRUE, Region, 200, <<AnnLeftOfCrop>>, 200, <<AnnLeftOfCrop>>)
UnreachableItem ==
    Item("THERMAL", FALSE, Region, 200, <<AnnInside>>, 200, <<AnnInside>>)
SecondaryItem ==
    Item("THERMAL", TRUE, NoRegion, 404, << >>, 200, <<AnnInside>>)
EmptyItem ==
    Item("THERMAL", TRUE, NoRegion, 200, << >>, 404, << >>)
UnlabelledItem ==
    Item("THERMAL", TRUE, Region, 500, << >>, 200, <<AnnInside>>)

ItemKinds ==
    {AnnotatedItem, PlainItem, OutsideItem, UnreachableItem, SecondaryItem,
     EmptyItem, UnlabelledItem}

\* The kinds of item of the runs with one item: every region and every list
\* of at most two annotations.
Annotations ==
    {AnnInside, AnnLeftOfCrop, AnnAcrossEdge, AnnSliver, AnnOnEdge,
     AnnInverted, AnnNoCoordinate, AnnByName}

LabelKinds ==
    {Item("THERMAL", TRUE, region, 200, all, 200, all) :
        region \in {NoRegion, Region, <<0, 0, Px(50), Px(50)>>},
        all \in SeqsUpTo(Annotations, 2)}

\* The locals of a process_image task.
NoTask ==
    [pc |-> "none", retry |-> 0, waits |-> << >>,
     crop_offset |-> <<0, 0>>, frame |-> NoSize, image_downloaded |-> FALSE,
     annotations |-> << >>, text |-> << >>]

\* The two files an item has under new_dataset: the part of the original
\* image that images/<fileName> shows (none when there is no file), and
\* labels/<base name>.txt.
NoFiles ==
    [i \in ItemIds |->
        [image |-> << >>, label |-> [exists |-> FALSE, text |-> << >>]]]

NoCall ==
    [pc |-> "idle", total_images |-> 0, skipped_annotated |-> 0,
     downloaded |-> 0, labeled |-> 0, errors |-> << >>,
     outcome |-> "none", detail |-> "None"]

\* No dataset preparation requested: what the other specifications start
\* from.
PreparerQuiet ==
    /\ prep = NoCall
    /\ tasks = [i \in ItemIds |-> NoTask]
    /\ semaphore = 0
    /\ new_dataset = NoFiles
    /\ backend = [images_status |-> 200, transformer_model |-> FALSE,
                  items |-> [i \in ItemIds |-> Unlisted]]
    /\ faults = 0
    /\ reruns = [count |-> 0, limit |-> 0, first |-> NoFiles]

\* training_state = {...} at module load (lines 185-196)
InitialState ==
    [status |-> "idle", current_epoch |-> 0, total_epochs |-> 0,
     metrics |-> RecordObj,
     started_at |-> "None", finished_at |-> "None", error |-> "None",
     weights_path |-> 0, warnings |-> << >>, config |-> 0]

TrainingInit ==
    /\ training_state = InitialState
    /\ writer = [epoch |-> 0, error |-> 0, settled |-> {}]
    /\ heap = [o \in ObjIds |-> << >>]
    /\ queue = << >>
    /\ workers = [w \in Workers |-> IdleWorker]
    /\ temp_dirs = {}
    /\ fs \in FsStates
    /\ loop = "free"
    /\ sreq = NoReq
    /\ nreq = 0
    /\ resp = [op |-> "none", code |-> 0, detail |-> "none"]
    /\ stream = [pc |-> "off", last_epoch |-> -1, snap |-> NoSnap,
                 at_lock |-> NoMetric, event |-> NoEvent]

\* The training service left alone: what the other specifications start
\* from (no dataset on disk, nothing requested).
TrainingQuiet ==
    /\ TrainingInit
    /\ fs = [new_dataset |-> FALSE, images |-> "missing", labels |-> "missing",
             base |-> FALSE, base_train |-> FALSE]

Init == TrainingInit /\ RegistryQuiet /\ PipelineQuiet /\ PreparerQuiet

\* ===================================================== start_retraining
\* "if training_state["status"] == "running"" (line 1486)
AlreadyRunningNever(ts) == FALSE
AlreadyRunning(ts) == ts.status = "running"

\* The four path checks of lines 1496-1522, in order; "ok" when all pass.
ValidatePathsNoImages(f) ==
    IF ~f.new_dataset THEN "new_dataset path not found"
    ELSE IF ~f.base THEN "Base dataset path not found"
    ELSE IF f.labels # "some" THEN "new_dataset/labels is empty or does not exist"
    ELSE "ok"
ValidatePathsNoBase(f) ==
    IF ~f.new_dataset THEN "new_dataset path not found"
    ELSE IF f.images # "some" THEN "new_dataset/images is empty or does not exist"
    ELSE IF f.labels # "some" THEN "new_dataset/labels is empty or does not exist"
    ELSE "ok"
ValidatePaths(f) ==
    IF ~f.new_dataset THEN "new_dataset path not found"
    ELSE IF ~f.base THEN "Base dataset path not found"
    ELSE IF f.images # "some" THEN "new_dataset/images is empty or does not exist"
    ELSE IF f.labels # "some" THEN "new_dataset/labels is empty or does not exist"
    ELSE "ok"

\* The dict literal of lines 1544-1555; obj is the new empty metrics list.
ResetStateKeepsResults(ts, obj, id, epochs) ==
    [ts EXCEPT !.status = "idle", !.started_at = "None", !.finished_at = "None",
               !.current_epoch = 0, !.total_epochs = epochs,
               !.error = "None", !.warnings = << >>, !.config = id]
ResetState(ts, obj, id, epochs) ==
    [status |-> "idle", started_at |-> "None", finished_at |-> "None",
     current_epoch |-> 0, total_epochs |-> epochs, metrics |-> obj,
     weights_path |-> 0, error |-> "None", warnings |-> << >>, config |-> id]

\* Lines 1484-1490: the status check under training_lock; 409 when running.
StartCheckFor(epochs, bases) ==
    /\ loop = "free"
    /\ nreq < MaxStarts
    /\ nreq' = nreq + 1
    /\ \E e \in epochs, b \in bases :
         IF AlreadyRunning(training_state)
         THEN /\ resp' = [op |-> "start", code |-> 409,
                          detail |-> "Training is already in progress"]
              /\ UNCHANGED <<sreq, loop>>
         ELSE /\ sreq' = [id |-> nreq + 1, pc |-> "validate", epochs |-> e,
                          seen |-> training_state.status,
                          base_model_path |-> b]
              /\ loop' = "start"
              /\ UNCHANGED resp
    /\ UNCHANGED <<training_state, writer, heap, queue, workers, temp_dirs, fs, stream>>
    /\ UNCHANGED not_training

\* A request for any number of epochs the model allows.
StartCheckOf(bases) == StartCheckFor(1..MaxEpochs, bases)

\* A request that names no base model.
StartCheck == StartCheckOf({<< >>})

\* A request for one epoch that names no base model.
StartCheckOneEpoch == StartCheckFor({1}, {<< >>})

\* A request that names no base model, or names one.
StartCheckAnyBase == StartCheckOf({<< >>, P_new})

\* Lines 1492-1522: path validation; 400 on the first failing check.
StartValidate ==
    /\ loop = "start"
    /\ sreq.pc = "validate"
    /\ IF ValidatePaths(fs) = "ok"
       THEN /\ sreq' = [sreq EXCEPT !.pc = "reset"]
            /\ UNCHANGED <<resp, loop>>
       ELSE /\ resp' = [op |-> "start", code |-> 400, detail |-> ValidatePaths(fs)]
            /\ sreq' = NoReq
            /\ loop' = "free"
    /\ UNCHANGED <<training_state, writer, heap, queue, workers, temp_dirs, fs,
                   nreq, stream>>
    /\ UNCHANGED not_training

\* A job that was accepted and is no longer queued or on a worker.
JobFinished(j) ==
    /\ j <= nreq
    /\ j # sreq.id
    /\ \A i \in 1..Len(queue) : queue[i].id # j
    /\ \A w \in Workers : workers[w].job # j

\* Lines 1542-1555: the record is replaced by a fresh dict under the lock.
StartReset ==
    /\ loop = "start"
    /\ sreq.pc = "reset"
    /\ Rebind(ResetState(training_state, FreshObj, sreq.id, sreq.epochs),
              workers, stream, heap)
    /\ writer' = [epoch |-> 0, error |-> 0,
                  settled |-> {j \in JobIds : JobFinished(j)}]
    /\ sreq' = [sreq EXCEPT !.pc = "submit"]
    /\ UNCHANGED <<queue, temp_dirs, fs, loop, nreq, resp>>
    /\ UNCHANGED not_training

\* Lines 1557-1568: training_executor.submit(...); the handler then sleeps
\* 0.5 s, touching nothing, and returns the 200 response.
StartSubmit ==
    /\ loop = "start"
    /\ sreq.pc = "submit"
    /\ queue' = Append(queue, training_config(sreq))
    /\ resp' = [op |-> "start", code |-> 200,
                detail |-> "Training started successfully"]
    /\ sreq' = NoReq
    /\ loop' = "free"
    /\ UNCHANGED <<training_state, writer, heap, workers, temp_dirs, fs, nreq,
                   stream>>
    /\ UNCHANGED not_training

\* ====================================================== stop_retraining
\* Lines 1866-1868, the writes made when a stop is accepted.
StoppedStateNoStamp(ts) ==
    [ts EXCEPT !.status = "stopped", !.error = "Training stopped by user"]
StoppedState(ts) ==
    [ts EXCEPT !.status = "stopped", !.finished_at = "t",
               !.error = "Training stopped by user"]

\* Lines 1859-1873: one critical section of training_lock.
stop_retraining ==
    /\ loop = "free"
    /\ IF training_state.status # "running"
       THEN /\ resp' = [op |-> "stop", code |-> 400,
                        detail |-> "No training in progress"]
            /\ UNCHANGED <<training_state, writer>>
       ELSE /\ training_state' = StoppedState(training_state)
            /\ writer' = [writer EXCEPT !.error = 0]
            /\ resp' = [op |-> "stop", code |-> 200,
                        detail |-> "Training stop requested"]
    /\ UNCHANGED <<heap, queue, workers, temp_dirs, fs, loop, sreq, nreq, stream>>
    /\ UNCHANGED not_training

\* ================================================== get_training_status
\* Lines 1578-1579: TrainingState(**training_state) built under the lock.
get_training_status ==
    /\ loop = "free"
    /\ resp' = [op |-> "status", code |-> 200, detail |-> "TrainingState"]
    /\ UNCHANGED <<training_state, writer, heap, queue, workers, temp_dirs, fs,
                   loop, sreq, nreq, stream>>
    /\ UNCHANGED not_training

\* ================================================ train_model_background
Job(w) == workers[w]

SetWorker(w, r) == [workers EXCEPT ![w] = r]

\* ThreadPoolExecutor: an idle thread takes the oldest queued work item.
TakeJob(w) ==
    /\ Job(w).pc = "idle"
    /\ queue # << >>
    /\ workers' = SetWorker(w, [IdleWorker EXCEPT !.pc = "init",
                                                  !.job = Head(queue).id,
                                                  !.epochs = Head(queue).epochs,
                                                  !.base_model_path =
                                                      Head(queue).base_model_path])
    /\ queue' = Tail(queue)
    /\ UNCHANGED <<training_state, writer, heap, temp_dirs, fs, loop, sreq,
                   nreq, resp, stream>>
    /\ UNCHANGED not_training

\* Lines 742-746: status "running", epoch 0 and a new empty metrics list.
WorkerInit(w) ==
    /\ Job(w).pc = "init"
    /\ Rebind([training_state EXCEPT !.status = "running", !.started_at = "t",
                                      !.current_epoch = 0, !.metrics = FreshObj],
              SetWorker(w, [Job(w) EXCEPT !.pc = "prepare"]), stream, heap)
    /\ writer' = [writer EXCEPT !.epoch = Job(w).job]
    /\ UNCHANGED <<queue, temp_dirs, fs, loop, sreq, nreq, resp>>
    /\ UNCHANGED not_training

\* prepare_training_dataset, lines 646-729: new_count > 0 iff new_dataset
\* has both directories and at least one image.
NewCount(f) == IF f.images = "some" /\ f.labels # "missing" THEN 1 ELSE 0

\* Lines 753-756: the temp directory is made (lines 661-664), then the merge
\* succeeds, or it fails (success False) and the worker raises.
WorkerPrepare(w) ==
    /\ Job(w).pc = "prepare"
    /\ temp_dirs' = temp_dirs \cup {Job(w).job}
    /\ \/ workers' = SetWorker(w, [Job(w) EXCEPT !.pc = "warnings",
                                                 !.warn = (NewCount(fs) = 0)])
       \/ workers' = SetWorker(w, [Job(w) EXCEPT
                          !.pc = "except", !.exc = "Dataset preparation failed"])

    /\ UNCHANGED <<training_state, writer, heap, queue, fs, loop, sreq, nreq, resp, stream>>
    /\ UNCHANGED not_training

\* Lines 759-760: warnings stored under the lock.
WorkerWarnings(w) ==
    /\ Job(w).pc = "warnings"
    /\ training_state' =
         [training_state EXCEPT !.warnings =
            IF Job(w).warn THEN <<"No new dataset images found">> ELSE << >>]
    /\ workers' = SetWorker(w, [Job(w) EXCEPT !.pc = "load"])
    /\ UNCHANGED <<writer, heap, queue, temp_dirs, fs, loop, sreq, nreq, resp, stream>>
    /\ UNCHANGED not_training

\* Lines 762-794: YOLO(base_model_path) and the output directory; either may raise.
WorkerLoad(w) ==
    /\ Job(w).pc = "load"
    /\ \/ workers' = SetWorker(w, [Job(w) EXCEPT
                          !.pc = "train",
                          !.base_model_path = base_model_path(@, model_files)])
       \/ workers' = SetWorker(w, [Job(w) EXCEPT !.pc = "except",
                                                 !.exc = "library error"])
    /\ UNCHANGED <<training_state, writer, heap, queue, temp_dirs, fs, loop,
                   sreq, nreq, resp, stream>>
    /\ UNCHANGED not_training

\* Lines 836-839: append when the list is shorter than epoch, else overwrite
\* slot epoch - 1. The list object is changed in place.
EpochUpdate(list, m) ==
    IF Len(list) < m.epoch THEN Append(list, m)
    ELSE [list EXCEPT ![m.epoch] = m]

\* on_train_epoch_end, lines 800-844: called by the trainer at the end of
\* each epoch; the writes are one critical section of training_lock.
on_train_epoch_end(w) ==
    /\ Job(w).pc = "train"
    /\ Job(w).ep < Job(w).epochs
    /\ LET epoch == Job(w).ep + 1
           m == [epoch |-> epoch, job |-> Job(w).job]
       IN /\ training_state' = [training_state EXCEPT !.current_epoch = epoch]
          /\ writer' = [writer EXCEPT !.epoch = Job(w).job]
          /\ heap' = [heap EXCEPT ![training_state.metrics] = EpochUpdate(@, m)]
          /\ workers' = SetWorker(w, [Job(w) EXCEPT !.ep = epoch])
    /\ UNCHANGED <<queue, temp_dirs, fs, loop, sreq, nreq, resp, stream>>
    /\ UNCHANGED not_training

\* model.train(...) returns (lines 855-874) after the last epoch; the result
\* has a results_dict (metrics_data = [] is created) or it has not.
TrainReturn(w) ==
    /\ Job(w).pc = "train"
    /\ Job(w).ep = Job(w).epochs
    /\ \/ Rebind(training_state,
                 SetWorker(w, [Job(w) EXCEPT !.pc = "post", !.i = 0,
                                             !.md = FreshObj]),
                 stream, heap)
       \/ /\ workers' = SetWorker(w, [Job(w) EXCEPT !.pc = "copy"])
          /\ UNCHANGED <<training_state, heap, stream>>
    /\ UNCHANGED <<writer, queue, temp_dirs, fs, loop, sreq, nreq, resp>>
    /\ UNCHANGED not_training

\* model.train(...) raises.
TrainRaise(w) ==
    /\ Job(w).pc = "train"
    /\ workers' = SetWorker(w, [Job(w) EXCEPT !.pc = "except",
                                              !.exc = "library error"])
    /\ UNCHANGED <<training_state, writer, heap, queue, temp_dirs, fs, loop,
                   sreq, nreq, resp, stream>>
    /\ UNCHANGED not_training

\* Lines 875-903: one iteration of "for epoch in range(epochs)" up to
\* metrics_data.append(epoch_metrics), made outside the lock.
PostAppend(w) ==
    /\ Job(w).pc = "post"
    /\ Job(w).i < Job(w).epochs
    /\ heap' = [heap EXCEPT ![Job(w).md] =
                  Append(@, [epoch |-> Job(w).i + 1, job |-> Job(w).job])]
    /\ workers' = SetWorker(w, [Job(w) EXCEPT !.pc = "publish"])
    /\ UNCHANGED <<training_state, writer, queue, temp_dirs, fs, loop, sreq,
                   nreq, resp, stream>>
    /\ UNCHANGED not_training

\* Lines 906-908: current_epoch and metrics = metrics_data under the lock.
PostPublish(w) ==
    /\ Job(w).pc = "publish"
    /\ Rebind([training_state EXCEPT !.current_epoch = Job(w).i + 1,
                                      !.metrics = Job(w).md],
              SetWorker(w, [Job(w) EXCEPT !.pc = "post", !.i = @ + 1]),
              stream, heap)
    /\ writer' = [writer EXCEPT !.epoch = Job(w).job]
    /\ UNCHANGED <<queue, temp_dirs, fs, loop, sreq, nreq, resp>>
    /\ UNCHANGED not_training

\* The loop of lines 875-908 ends.
PostDone(w) ==
    /\ Job(w).pc = "post"
    /\ Job(w).i = Job(w).epochs
    /\ workers' = SetWorker(w, [Job(w) EXCEPT !.pc = "copy"])
    /\ UNCHANGED <<training_state, writer, heap, queue, temp_dirs, fs, loop,
                   sreq, nreq, resp, stream>>
    /\ UNCHANGED not_training

\* Lines 910-940: best.pt is copied to the timestamped path and the metrics
\* JSON is written; a missing best.pt raises, and so does metrics_data when
\* no results_dict created it.
WorkerCopy(w) ==
    /\ Job(w).pc = "copy"
    /\ \/ /\ Job(w).md # 0
          /\ workers' = SetWorker(w, [Job(w) EXCEPT !.pc = "final"])
       \/ /\ Job(w).md = 0
          /\ workers' = SetWorker(w, [Job(w) EXCEPT
                             !.pc = "except", !.exc = "library error"])
       \/ workers' = SetWorker(w, [Job(w) EXCEPT
                          !.pc = "except",
                          !.exc = "Best weights not found after training"])
    /\ UNCHANGED <<training_state, writer, heap, queue, temp_dirs, fs, loop,
                   sreq, nreq, resp, stream>>
    /\ UNCHANGED not_training

\* Lines 942-947: the final state on success.
WorkerFinal(w) ==
    /\ Job(w).pc = "final"
    /\ training_state' = [training_state EXCEPT !.status = "done",
                                                !.finished_at = "t",
                                                !.weights_path = Job(w).job,
                                                !.current_epoch = Job(w).epochs]
    /\ writer' = [writer EXCEPT !.epoch = Job(w).job]
    /\ workers' = SetWorker(w, [Job(w) EXCEPT !.pc = "cleanup"])
    /\ UNCHANGED <<heap, queue, temp_dirs, fs, loop, sreq, nreq, resp,
                   stream>>
    /\ UNCHANGED not_training

\* Lines 957-960, the writes of the except block; exc is str(e).
ErrorStateNoMessage(ts, exc) ==
    [ts EXCEPT !.finished_at = "t"]
ErrorState(ts, exc) ==
    [ts EXCEPT !.status = "error", !.error = exc, !.finished_at = "t"]

\* Lines 953-960: the except block catches whatever the try body raised.
WorkerExcept(w) ==
    /\ Job(w).pc = "except"
    /\ training_state' = ErrorState(training_state, Job(w).exc)
    /\ writer' = [writer EXCEPT !.error = Job(w).job]
    /\ workers' = SetWorker(w, [Job(w) EXCEPT !.pc = "cleanup"])
    /\ UNCHANGED <<heap, queue, temp_dirs, fs, loop, sreq, nreq, resp,
                   stream>>
    /\ UNCHANGED not_training

\* Lines 962-969: the finally block. An existing temp directory is removed
\* by shutil.rmtree, or rmtree raises, the handler of line 968 prints the
\* failure and the directory stays. The thread is idle again afterwards.
WorkerCleanup(w) ==
    /\ Job(w).pc = "cleanup"
    /\ \/ temp_dirs' = temp_dirs \ {Job(w).job}
       \/ /\ Job(w).job \in temp_dirs
          /\ temp_dirs' = temp_dirs
    /\ Rebind(training_state, SetWorker(w, IdleWorker), stream, heap)
    /\ UNCHANGED <<writer, queue, fs, loop, sreq, nreq, resp>>
    /\ UNCHANGED not_training

train_model_background(w) ==
    \/ WorkerInit(w)
    \/ WorkerPrepare(w)
    \/ WorkerWarnings(w)
    \/ WorkerLoad(w)
    \/ on_train_epoch_end(w)
    \/ TrainReturn(w)
    \/ TrainRaise(w)
    \/ PostAppend(w)
    \/ PostPublish(w)
    \/ PostDone(w)
    \/ WorkerCopy(w)
    \/ WorkerFinal(w)
    \/ WorkerExcept(w)
    \/ WorkerCleanup(w)

\* ============================== stream_training_logs.event_generator
\* "status in ["done", "error"]" (lines 1620 and 1636)
StreamFinishedOnDone(status) == status = "done"
StreamFinished(status) == status \in {"done", "error"}

\* dict(training_state), line 1614: a shallow copy; the metrics entry is the
\* same list object the record holds. Of the copy the event uses status,
\* current_epoch and metrics[-1] (and total_epochs, weights_path, error and
\* warnings, which are values copied with the status and are left out here).
ShallowCopy(ts) ==
    [status |-> ts.status, current_epoch |-> ts.current_epoch,
     metrics |-> ts.metrics]

\* A client connects: last_epoch = -1 (line 1604).
StreamOpen ==
    /\ loop = "free"
    /\ stream.pc = "off"
    /\ stream' = [stream EXCEPT !.pc = "poll", !.last_epoch = -1]
    /\ UNCHANGED <<training_state, writer, heap, queue, workers, temp_dirs, fs,
                   loop, sreq, nreq, resp>>
    /\ UNCHANGED not_training

\* Lines 1608-1610: the consumer has disconnected; the generator ends.
StreamDisconnect ==
    /\ loop = "free"
    /\ stream.pc = "poll"
    /\ stream' = [stream EXCEPT !.pc = "closed", !.last_epoch = -1]
    /\ UNCHANGED <<training_state, writer, heap, queue, workers, temp_dirs, fs,
                   loop, sreq, nreq, resp>>
    /\ UNCHANGED not_training

\* Lines 1612-1617: the copy taken under training_lock (at_lock remembers
\* what metrics[-1] was at that instant).
StreamSnapshot ==
    /\ loop = "free"
    /\ stream.pc = "poll"
    /\ stream' = [stream EXCEPT !.pc = "snapped",
                                !.snap = ShallowCopy(training_state),
                                !.at_lock = Last(heap[training_state.metrics])]
    /\ loop' = "stream"
    /\ UNCHANGED <<training_state, writer, heap, queue, workers, temp_dirs, fs,
                   sreq, nreq, resp>>
    /\ UNCHANGED not_training

\* Lines 1619-1633: after the lock is released the event is built from the
\* copy (metrics[-1] is read from the list object now) and yielded when the
\* epoch changed or the status is done/error. The copy is not read again
\* except for its status, which the event carries; last_epoch, assigned
\* right after the yield and read by nobody in between, is assigned here.
StreamYield ==
    /\ loop = "stream"
    /\ stream.pc = "snapped"
    /\ stream.snap.current_epoch # stream.last_epoch
         \/ StreamFinished(stream.snap.status)
    /\ Rebind(training_state, workers,
              [stream EXCEPT
                 !.pc = "yielded",
                 !.event = [status |-> stream.snap.status,
                            current_epoch |-> stream.snap.current_epoch,
                            metrics |-> Last(heap[stream.snap.metrics])],
                 !.last_epoch = stream.snap.current_epoch,
                 !.at_lock = NoMetric, !.snap = NoSnap],
              heap)
    /\ loop' = "free"
    /\ UNCHANGED <<writer, queue, temp_dirs, fs, sreq, nreq, resp>>
    /\ UNCHANGED not_training

\* Lines 1635-1641 after a yield: the generator ends on done/error and
\* sleeps 2 s otherwise.
StreamResume ==
    /\ loop = "free"
    /\ stream.pc = "yielded"
    /\ stream' = [stream EXCEPT
                    !.pc = IF StreamFinished(stream.event.status)
                           THEN "closed" ELSE "poll",
                    !.last_epoch = IF StreamFinished(stream.event.status)
                                   THEN -1 ELSE @,
                    !.event = NoEvent]
    /\ UNCHANGED <<training_state, writer, heap, queue, workers, temp_dirs, fs,
                   loop, sreq, nreq, resp>>
    /\ UNCHANGED not_training

\* Lines 1620 and 1635-1641 when nothing is sent: the epoch is unchanged and
\* the status is not done/error, so the generator sleeps 2 s.
StreamSkip ==
    /\ loop = "stream"
    /\ stream.pc = "snapped"
    /\ ~(stream.snap.current_epoch # stream.last_epoch
           \/ StreamFinished(stream.snap.status))
    /\ Rebind(training_state, workers,
              [stream EXCEPT !.pc = "poll", !.at_lock = NoMetric,
                             !.snap = NoSnap],
              heap)
    /\ loop' = "free"
    /\ UNCHANGED <<writer, queue, temp_dirs, fs, sreq, nreq, resp>>
    /\ UNCHANGED not_training

event_generator ==
    \/ StreamOpen
    \/ StreamDisconnect
    \/ StreamSnapshot
    \/ StreamYield
    \/ StreamResume
    \/ StreamSkip

\* ================================================================ system
start_retraining ==
    \/ StartCheck
    \/ StartValidate
    \/ StartReset
    \/ StartSubmit

training_executor ==
    \/ \E w \in Workers : TakeJob(w)
    \/ \E w \in Workers : train_model_background(w)

\* The whole service: the control endpoints, the executor and one SSE client.
Next ==
    \/ start_retraining
    \/ stop_retraining
    \/ get_training_status
    \/ training_executor
    \/ event_generator

Spec == Init /\ [][Next]_vars

\* The service with no SSE client connected. The generator writes nothing
\* the endpoints or the worker read, so this is the same system seen
\* without its observer.
NextJobs ==
    \/ start_retraining
    \/ stop_retraining
    \/ get_training_status
    \/ training_executor

SpecJobs == Init /\ [][NextJobs]_vars

\* The same service under its scheduling: the executor thread runs whenever
\* it has work, and a start_retraining call that passed its check runs to
\* its return.
InitJobsFair == Init

SpecJobsFair ==
    /\ InitJobsFair
    /\ [][NextJobs]_vars
    /\ WF_vars(training_executor)
    /\ WF_vars(StartValidate \/ StartReset \/ StartSubmit)

\* ========================================================= model registry
\* Contents the sidecar may have when the process starts: none, something
\* json.load or persisted_info["path"] fails on, or a record as select_model
\* writes them.
SidecarStates ==
    {NoFile, [state |-> "corrupt", info |-> DefaultInfo]}
    \cup {[state |-> "json", info |-> InfoOf(p, 0)] : p \in RequestPaths}

\* Disks the registry is run against: every candidate file, all but the
\* base model, the base model alone, nothing.
DiskStates ==
    {CandidateFiles, CandidateFiles \ {Resolve(P_base)}, {Resolve(P_base)}, {}}

\* The process before "detector = TwoStageTransformerDetector()".
RegistryInit ==
    /\ detector = [transformer_model |-> FALSE, defect_model |-> NoModel,
                   defect_model_path |-> P_base]
    /\ active_model_info = DefaultInfo
    /\ active_model_file \in SidecarStates
    /\ model_files \in DiskStates
    /\ model_lock = "free"
    /\ boot = "import"
    /\ mreq = NoSelect
    /\ vreq = NoDetect
    /\ mresp = NoAnswer

\* _load_models, lines 288-343: the segmentation model, then the defect
\* model at detector.defect_model_path when that file exists, with the
\* record of lines 312-323. tm: the segmentation model ends up loaded;
\* loads: YOLO(defect_model_path) is reached and returns. A raise is caught
\* at line 335 and leaves what was not yet assigned.
LoadedDetector(det, files, tm, loads) ==
    [det EXCEPT !.transformer_model = tm,
                !.defect_model =
                    IF loads /\ Exists(det.defect_model_path, files)
                    THEN det.defect_model_path ELSE det.defect_model]

LoadedInfo(det, info, files, loads) ==
    IF loads /\ Exists(det.defect_model_path, files)
    THEN InfoOf(det.defect_model_path, 0)
    ELSE info

\* Module import: the detector is constructed and loads its default models.
LoadModels ==
    /\ boot = "import"
    /\ \E tm \in BOOLEAN, loads \in BOOLEAN :
         /\ detector' = LoadedDetector(detector, model_files, tm, loads)
         /\ active_model_info' =
              LoadedInfo(detector, active_model_info, model_files, loads)
    /\ boot' = "main"
    /\ UNCHANGED <<active_model_file, model_files, model_lock, mreq, vreq,
                   mresp>>
    /\ UNCHANGED not_registry

\* Lines 1884-1902, the startup block: the persisted selection is loaded
\* when the sidecar can be read and the path it names exists. mresp keeps
\* which of the block's messages was printed.
StartupBlock ==
    /\ boot = "main"
    /\ boot' = "serving"
    /\ \/ /\ active_model_file.state = "json"
          /\ Exists(active_model_file.info.path, model_files)
          /\ detector' = [detector EXCEPT
                            !.defect_model = active_model_file.info.path,
                            !.defect_model_path = active_model_file.info.path]
          /\ active_model_info' = [active_model_file.info EXCEPT !.loaded = TRUE]
          /\ mresp' = [op |-> "startup", ok |-> TRUE, error |-> "None",
                       model |-> active_model_file.info.path]
       \/ /\ active_model_file.state = "json"
          /\ Exists(active_model_file.info.path, model_files)
          /\ mresp' = [op |-> "startup", ok |-> FALSE,
                       error |-> "Could not load persisted active model",
                       model |-> NoModel]
          /\ UNCHANGED <<detector, active_model_info>>
       \/ /\ active_model_file.state = "json"
          /\ ~Exists(active_model_file.info.path, model_files)
          /\ mresp' = [op |-> "startup", ok |-> FALSE,
                       error |-> "Persisted model not found",
                       model |-> NoModel]
          /\ UNCHANGED <<detector, active_model_info>>
       \/ /\ active_model_file.state = "corrupt"
          /\ mresp' = [op |-> "startup", ok |-> FALSE,
                       error |-> "Could not load persisted active model",
                       model |-> NoModel]
          /\ UNCHANGED <<detector, active_model_info>>
       \/ /\ active_model_file.state = "absent"
          /\ UNCHANGED <<detector, active_model_info, mresp>>
    /\ UNCHANGED <<active_model_file, model_files, model_lock, mreq, vreq>>
    /\ UNCHANGED not_registry

\* The process ends and is started again: memory is lost, the disk stays.
Restart ==
    /\ boot = "serving"
    /\ mreq.pc = "none"
    /\ detector' = [transformer_model |-> FALSE, defect_model |-> NoModel,
                    defect_model_path |-> P_base]
    /\ active_model_info' = DefaultInfo
    /\ model_lock' = "free"
    /\ boot' = "import"
    /\ vreq' = NoDetect
    /\ mresp' = NoAnswer
    /\ UNCHANGED <<active_model_file, model_files, mreq>>
    /\ UNCHANGED not_registry

\* ------------------------------------------------------------ select_model
\* Lines 1726-1769: the checks made before the lock is taken. The first
\* that fails answers the request; none changes anything.
SelectError(path, files) ==
    IF ~is_allowed(Resolve(path)) THEN "Invalid model path"
    ELSE IF ~Exists(path, files) THEN "Model file not found"
    ELSE IF Suffix(path) # ".pt" THEN "Model file must have .pt extension"
    ELSE "None"

SelectValidateOf(paths) ==
    /\ boot = "serving"
    /\ mreq.pc = "none"
    /\ \E path \in paths :
         IF SelectError(path, model_files) # "None"
         THEN /\ mresp' = [op |-> "select", ok |-> FALSE,
                           error |-> SelectError(path, model_files),
                           model |-> NoModel]
              /\ mreq' = NoSelect
         ELSE /\ mreq' = [pc |-> "acquire", path |-> path,
                          before |-> [model |-> detector.defect_model,
                                      info |-> active_model_info,
                                      file |-> active_model_file]]
              /\ UNCHANGED mresp
    /\ UNCHANGED <<detector, active_model_info, active_model_file, model_files,
                   model_lock, boot, vreq>>
    /\ UNCHANGED not_registry

\* A request with any of the paths.
SelectValidate == SelectValidateOf(RequestPaths)

\* A request for the retrained model.
SelectValidateNew == SelectValidateOf({P_new})

\* Line 1773: with model_lock.
SelectAcquire ==
    /\ mreq.pc = "acquire"
    /\ model_lock = "free"
    /\ model_lock' = "select"
    /\ mreq' = [mreq EXCEPT !.pc = "unload"]
    /\ UNCHANGED <<detector, active_model_info, active_model_file, model_files,
                   boot, vreq, mresp>>
    /\ UNCHANGED not_registry

\* Lines 1774-1777: the current model is dropped before the new one is read.
SelectUnload ==
    /\ mreq.pc = "unload"
    /\ detector' = [detector EXCEPT !.defect_model = NoModel]
    /\ mreq' = [mreq EXCEPT !.pc = "load"]
    /\ UNCHANGED <<active_model_info, active_model_file, model_files,
                   model_lock, boot, vreq, mresp>>
    /\ UNCHANGED not_registry

\* Lines 1779-1782 and 1820-1825: YOLO(str(model_path)) returns and the
\* detector takes the new instance, or it raises: the with block releases
\* the lock and the handler answers "Failed to load model".
SelectLoadRecordFirst ==
    /\ mreq.pc = "load"
    /\ active_model_info' = InfoOf(mreq.path, 1)
    /\ \/ /\ detector' = [detector EXCEPT !.defect_model = mreq.path,
                                          !.defect_model_path = mreq.path]
          /\ mreq' = [mreq EXCEPT !.pc = "record"]
          /\ UNCHANGED <<model_lock, mresp>>
       \/ /\ model_lock' = "free"
          /\ mresp' = [op |-> "select", ok |-> FALSE,
                       error |-> "Failed to load model", model |-> NoModel]
          /\ mreq' = [mreq EXCEPT !.pc = "failed"]
          /\ UNCHANGED detector
    /\ UNCHANGED <<active_model_file, model_files, boot, vreq>>
    /\ UNCHANGED not_registry

SelectLoad ==
    /\ mreq.pc = "load"
    /\ \/ /\ detector' = [detector EXCEPT !.defect_model = mreq.path,
                                          !.defect_model_path = mreq.path]
          /\ mreq' = [mreq EXCEPT !.pc = "record"]
          /\ UNCHANGED <<model_lock, mresp>>
       \/ /\ model_lock' = "free"
          /\ mresp' = [op |-> "select", ok |-> FALSE,
                       error |-> "Failed to load model", model |-> NoModel]
          /\ mreq' = [mreq EXCEPT !.pc = "failed"]
          /\ UNCHANGED detector
    /\ UNCHANGED <<active_model_info, active_model_file, model_files, boot,
                   vreq>>
    /\ UNCHANGED not_registry

\* Lines 1784-1794: the record is replaced.
SelectRecord ==
    /\ mreq.pc = "record"
    /\ active_model_info' = InfoOf(mreq.path, 1)
    /\ mreq' = [mreq EXCEPT !.pc = "persist"]
    /\ UNCHANGED <<detector, active_model_file, model_files, model_lock, boot,
                   vreq, mresp>>
    /\ UNCHANGED not_registry

\* Lines 1796-1802: the record is dumped to ACTIVE_MODEL_FILE; a failure is
\* printed and otherwise ignored. It leaves the file as it was (mkdir or
\* open failed) or cut short (the dump failed after open(..., 'w')).
SelectPersist ==
    /\ mreq.pc = "persist"
    /\ \/ active_model_file' = [state |-> "json", info |-> active_model_info]
       \/ active_model_file' = active_model_file
       \/ active_model_file' = [state |-> "corrupt", info |-> DefaultInfo]
    /\ mreq' = [mreq EXCEPT !.pc = "return"]
    /\ UNCHANGED <<detector, active_model_info, model_files, model_lock, boot,
                   vreq, mresp>>
    /\ UNCHANGED not_registry

\* SelectReturn without the release of the lock.
SelectReturnKeepsLock ==
    /\ mreq.pc = "return"
    /\ mresp' = [op |-> "select", ok |-> TRUE, error |-> "None",
                 model |-> active_model_info.path]
    /\ mreq' = [mreq EXCEPT !.pc = "returned"]
    /\ UNCHANGED <<detector, active_model_info, active_model_file, model_files,
                   model_lock, boot, vreq>>
    /\ UNCHANGED not_registry

\* Lines 1804-1818: the success answer; leaving the with block frees the lock.
SelectReturn ==
    /\ mreq.pc = "return"
    /\ model_lock' = "free"
    /\ mresp' = [op |-> "select", ok |-> TRUE, error |-> "None",
                 model |-> active_model_info.path]
    /\ mreq' = [mreq EXCEPT !.pc = "returned"]
    /\ UNCHANGED <<detector, active_model_info, active_model_file, model_files,
                   boot, vreq>>
    /\ UNCHANGED not_registry

\* The response has gone out; the handler's locals are gone.
SelectEnd ==
    /\ mreq.pc \in {"returned", "failed"}
    /\ mreq' = NoSelect
    /\ UNCHANGED <<detector, active_model_info, active_model_file, model_files,
                   model_lock, boot, vreq, mresp>>
    /\ UNCHANGED not_registry

\* get_active_model, lines 1827-1843: one critical section of model_lock.
get_active_model ==
    /\ boot = "serving"
    /\ mreq.pc = "none"
    /\ model_lock = "free"
    /\ mresp' = IF active_model_info.loaded
                THEN [op |-> "active", ok |-> TRUE, error |-> "None",
                      model |-> active_model_info.path]
                ELSE [op |-> "active", ok |-> FALSE,
                      error |-> "No active model loaded", model |-> NoModel]
    /\ UNCHANGED <<detector, active_model_info, active_model_file, model_files,
                   model_lock, boot, mreq, vreq>>
    /\ UNCHANGED not_registry

select_model ==
    \/ SelectValidate
    \/ SelectAcquire
    \/ SelectUnload
    \/ SelectLoad
    \/ SelectRecord
    \/ SelectPersist
    \/ SelectReturn
    \/ SelectEnd

\* ------------------------------------------------- detect_thermal_anomalies
\* Lines 1001-1021: the handler starts and awaits file.read(); other
\* handlers may run before it goes on.
DetectBegin ==
    /\ boot = "serving"
    /\ mreq.pc = "none"
    /\ vreq.pc = "none"
    /\ vreq' = [pc |-> "reading", at_start |-> detector.defect_model]
    /\ UNCHANGED <<detector, active_model_info, active_model_file, model_files,
                   model_lock, boot, mreq, mresp>>
    /\ UNCHANGED not_registry

\* Lines 1023-1056 with detect_defects_two_stage (345-484) and
\* _detect_defects (543-551), run without an await: with no model at all
\* the models are loaded again (lines 362-366); Stage 2 runs when Stage 1
\* found a transformer (found), on self.defect_model as it is then.
DetectRun ==
    /\ vreq.pc = "reading"
    /\ mreq.pc = "none"
    /\ \E tm \in BOOLEAN, loads \in BOOLEAN, found \in BOOLEAN :
         LET reload == ~detector.transformer_model
                       /\ detector.defect_model = NoModel
             det == IF reload
                    THEN LoadedDetector(detector, model_files, tm, loads)
                    ELSE detector
             info == IF reload
                     THEN LoadedInfo(detector, active_model_info, model_files,
                                     loads)
                     ELSE active_model_info
         IN /\ reload \/ (tm /\ loads)
            /\ found => det.transformer_model
            /\ detector' = det
            /\ active_model_info' = info
            /\ mresp' =
                 IF ~det.transformer_model /\ det.defect_model = NoModel
                 THEN [op |-> "detect", ok |-> FALSE,
                       error |-> "Models not loaded", model |-> NoModel]
                 ELSE IF ~found
                 THEN [op |-> "detect", ok |-> TRUE,
                       error |-> "no_defects_detected", model |-> NoModel]
                 ELSE IF det.defect_model = NoModel
                 THEN [op |-> "detect", ok |-> TRUE,
                       error |-> "defect_model_not_loaded", model |-> NoModel]
                 ELSE [op |-> "detect", ok |-> TRUE,
                       error |-> "defects_detected",
                       model |-> det.defect_model]
    /\ vreq' = [vreq EXCEPT !.pc = "answered"]
    /\ UNCHANGED <<active_model_file, model_files, model_lock, boot, mreq>>
    /\ UNCHANGED not_registry

\* The response has gone out.
DetectEnd ==
    /\ vreq.pc = "answered"
    /\ mreq.pc = "none"
    /\ vreq' = NoDetect
    /\ UNCHANGED <<detector, active_model_info, active_model_file, model_files,
                   model_lock, boot, mreq, mresp>>
    /\ UNCHANGED not_registry

detect_thermal_anomalies ==
    \/ DetectBegin
    \/ DetectRun
    \/ DetectEnd

\* The registry and the detection endpoint of one process, from its start.
RegistryNext ==
    \/ LoadModels
    \/ StartupBlock
    \/ Restart
    \/ select_model
    \/ detect_thermal_anomalies

InitRegistry ==
    TrainingQuiet /\ RegistryInit /\ PipelineQuiet /\ PreparerQuiet

SpecRegistry == InitRegistry /\ [][RegistryNext]_vars

\* ================================================ detect_defects_two_stage
\* The two slots of the detector after _load_models (lines 288-343); both
\* FALSE stands for its returning False.
ReloadOutcomes == BOOLEAN \X BOOLEAN

Raised500(detail) == [NoVerdict EXCEPT !.raised = TRUE, !.detail = detail]

\* Lines 361-373: the call starts; with neither model loaded it reloads
\* them, and gives up with a 500 when that fails.
TwoStageBegin ==
    /\ ppc = "idle"
    /\ \E image \in Images, conf \in Thresholds,
          slots \in BOOLEAN \X BOOLEAN, reload \in ReloadOutcomes :
          LET models == IF ~slots[1] /\ ~slots[2] THEN reload ELSE slots
          IN  /\ frame' = [image |-> image, confidence_threshold |-> conf,
                           transformer_model |-> models[1],
                           defect_model |-> models[2]]
              /\ IF ~models[1] /\ ~models[2]
                 THEN /\ verdict' = Raised500("Models not loaded and failed to initialize")
                      /\ ppc' = "answered"
                 ELSE /\ verdict' = verdict
                      /\ ppc' = "stage1"
    /\ UNCHANGED <<stage1, stage2>>
    /\ UNCHANGED not_pipeline

\* Line 378: stage 1 on the whole image.
Stage1 ==
    /\ ppc = "stage1"
    /\ \E answer \in LocalizerAnswers(frame.image, frame.confidence_threshold) :
          LET r == segment_transformer(frame.image, frame.transformer_model,
                                       answer)
          IN  stage1' =
                  [crop |-> r.crop, info |-> r.info,
                   invoked |-> frame.transformer_model,
                   candidates |->
                       IF frame.transformer_model THEN answer.candidates ELSE 0,
                   regions |->
                       IF frame.transformer_model THEN Len(answer.boxes) ELSE 0]
    /\ ppc' = "stage2"
    /\ UNCHANGED <<frame, stage2, verdict>>
    /\ UNCHANGED not_pipeline

\* Line 385: stage 2 runs only on a crop of a detected transformer.
runs_stage2(info, crop) ==
    info.status = "transformer_detected" /\ crop # NoCrop

\* Lines 393-478: the response built from the two stages.
Verdict(image, conf, info, s2) ==
    LET defects == s2.defects
        n       == Len(defects)
        total   == total_severity(defects)
    IN  [raised |-> FALSE, detail |-> "None", success |-> TRUE,
         stage1_info |-> info,
         stage2_info |-> s2.info,
         detections |-> [i \in 1..n |-> api_detection(defects[i])],
         overlay |->
             IF n > 0 /\ info.status = "transformer_detected"
             THEN [i \in 1..n |-> overlay_box(defects[i], info)]
             ELSE << >>,
         total_detections |-> n,
         severity_level |-> severity_level(info.status, n, total),
         severity_score |-> IF n > 0 THEN <<total, n>> ELSE <<0, 1>>,
         confidence_threshold |-> conf,
         image_size |-> image]

\* Lines 380-478: stage 2 on the crop, or skipped, and the response.
Stage2 ==
    /\ ppc = "stage2"
    /\ IF runs_stage2(stage1.info, stage1.crop)
       THEN \E answer \in ClassifierAnswers(stage1.crop,
                                            frame.confidence_threshold) :
               LET r == detect_defects(frame.defect_model, answer)
               IN  stage2' = [defects |-> r.defects, info |-> r.info,
                              invoked |-> frame.defect_model,
                              input |-> stage1.crop]
       ELSE stage2' = [defects |-> << >>,
                       info |-> Stage2Status("no_defects_detected"),
                       invoked |-> FALSE, input |-> NoCrop]
    /\ verdict' = Verdict(frame.image, frame.confidence_threshold,
                          stage1.info, stage2')
    /\ ppc' = "answered"
    /\ UNCHANGED <<frame, stage1>>
    /\ UNCHANGED not_pipeline

\* The response has been sent; the next call may start.
TwoStageEnd ==
    /\ ppc = "answered"
    /\ ppc' = "idle"
    /\ frame' = NoFrame
    /\ stage1' = NoStage1
    /\ stage2' = NoStage2
    /\ verdict' = NoVerdict
    /\ UNCHANGED not_pipeline

detect_defects_two_stage ==
    \/ TwoStageBegin
    \/ Stage1
    \/ Stage2
    \/ TwoStageEnd

InitPipeline ==
    TrainingQuiet /\ RegistryQuiet /\ PipelineQuiet /\ PreparerQuiet

\* Calls of the two-stage detection, one after another.
SpecPipeline == InitPipeline /\ [][detect_defects_two_stage]_vars

\* ============================================ prepare_retraining_dataset
Listed == {i \in ItemIds : backend.items[i].listed}
Skipped == {i \in Listed : backend.items[i].imageType = "ANNOTATED"}
\* filtered_images without the test of line 1150.
FilteredWithAnnotated == Listed
\* filtered_images (lines 1148-1155).
Filtered == Listed \ Skipped

\* Lines 1110-1137: the call starts, creates the two directories and the
\* semaphore and asks for the image list.  A failure to create a directory
\* reaches the handler of line 1458.
PrepareBegin ==
    /\ prep.pc = "idle"
    /\ reruns.count < reruns.limit
    /\ \/ /\ prep' = [NoCall EXCEPT !.pc = "fetch"]
          /\ semaphore' = semaphore_permits
          /\ UNCHANGED faults
       \/ /\ faults > 0
          /\ faults' = faults - 1
          /\ prep' = [NoCall EXCEPT !.pc = "done", !.outcome = "raised",
                                    !.detail = "Dataset preparation failed"]
          /\ UNCHANGED semaphore
    /\ tasks' = [i \in ItemIds |-> NoTask]
    /\ UNCHANGED <<new_dataset, backend, reruns>>
    /\ UNCHANGED not_preparer

\* Lines 1138-1157 and 1434-1436: the image list arrives, the ANNOTATED
\* entries are counted and left out, and one task per remaining entry is
\* handed to asyncio.gather; or the list does not arrive and the call raises.
FetchImages ==
    /\ prep.pc = "fetch"
    /\ \/ /\ backend.images_status = 200
          /\ prep' = [prep EXCEPT !.pc = "gather",
                                  !.total_images = Cardinality(Listed),
                                  !.skipped_annotated = Cardinality(Skipped)]
          /\ tasks' = [i \in ItemIds |->
                          IF i \in Filtered
                          THEN [NoTask EXCEPT !.pc = "queued"] ELSE NoTask]
          /\ UNCHANGED faults
       \/ /\ backend.images_status # 200 \/ faults > 0
          /\ faults' = IF backend.images_status # 200 THEN faults
                       ELSE faults - 1
          /\ prep' = [prep EXCEPT !.pc = "done", !.outcome = "raised",
                                  !.detail = "Failed to fetch images"]
          /\ UNCHANGED tasks
    /\ UNCHANGED <<semaphore, new_dataset, backend, reruns>>
    /\ UNCHANGED not_preparer

\* Line 1163 without the wait for a permit.
AcquireNoWait(i) ==
    /\ tasks[i].pc = "queued"
    /\ semaphore' = semaphore - 1
    /\ tasks' = [tasks EXCEPT ![i].pc = "download"]
    /\ UNCHANGED <<prep, new_dataset, backend, faults, reruns>>
    /\ UNCHANGED not_preparer

\* Lines 1163-1190: the task takes a permit of the semaphore and sends its
\* first download request.
Acquire(i) ==
    /\ tasks[i].pc = "queued"
    /\ semaphore > 0
    /\ semaphore' = semaphore - 1
    /\ tasks' = [tasks EXCEPT ![i].pc = "download"]
    /\ UNCHANGED <<prep, new_dataset, backend, faults, reruns>>
    /\ UNCHANGED not_preparer

\* Lines 1295-1307 with a fourth attempt.
AttemptFailedOnceMore(i, t) ==
    /\ IF t.retry < max_retries
       THEN /\ tasks' = [tasks EXCEPT ![i] =
                            [t EXCEPT !.pc = "sleep",
                                      !.waits = Append(@, retry_delay * 2^t.retry)]]
            /\ UNCHANGED <<prep, semaphore>>
       ELSE /\ tasks' = [tasks EXCEPT ![i] = [t EXCEPT !.pc = "done"]]
            /\ prep' = [prep EXCEPT !.errors =
                           Append(@, [imageId |-> i, stage |-> "download"])]
            /\ semaphore' = semaphore + 1

\* Lines 1295-1307 with the last failure returning without leaving the
\* "async with semaphore" block.
AttemptFailedKeepsPermit(i, t) ==
    /\ IF t.retry < max_retries - 1
       THEN /\ tasks' = [tasks EXCEPT ![i] =
                            [t EXCEPT !.pc = "sleep",
                                      !.waits = Append(@, retry_delay * 2^t.retry)]]
            /\ UNCHANGED <<prep, semaphore>>
       ELSE /\ tasks' = [tasks EXCEPT ![i] = [t EXCEPT !.pc = "done"]]
            /\ prep' = [prep EXCEPT !.errors =
                           Append(@, [imageId |-> i, stage |-> "download"])]
            /\ UNCHANGED semaphore

\* Lines 1295-1307: an attempt raised; t holds the locals as the attempt
\* left them.  The task waits and tries again, or after the last attempt
\* records a download error and returns.
AttemptFailed(i, t) ==
    /\ IF t.retry < max_retries - 1
       THEN /\ tasks' = [tasks EXCEPT ![i] =
                            [t EXCEPT !.pc = "sleep",
                                      !.waits = Append(@, retry_delay * 2^t.retry)]]
            /\ UNCHANGED <<prep, semaphore>>
       ELSE /\ tasks' = [tasks EXCEPT ![i] = [t EXCEPT !.pc = "done"]]
            /\ prep' = [prep EXCEPT !.errors =
                           Append(@, [imageId |-> i, stage |-> "download"])]
            /\ semaphore' = semaphore + 1

\* Lines 1202-1285: the locals after the segmentation step of an attempt,
\* and the part of the original image that image_data then holds.
Segmented(i, t, seg) ==
    IF backend.transformer_model /\ seg = "answer"
       /\ backend.items[i].region # NoRegion
    THEN LET crop == prepare_crop(backend.items[i].region, ImageSize)
         IN  [locals |-> [t EXCEPT !.crop_offset = <<crop[1], crop[2]>>,
                                   !.frame = <<crop[3] - crop[1],
                                               crop[4] - crop[2]>>],
              image_data |-> crop]
    ELSE [locals |-> [t EXCEPT !.frame = ImageSize],
          image_data |-> <<0, 0, ImageSize[1], ImageSize[2]>>]

\* Lines 1184-1293: the answer to a download request arrives and the attempt
\* runs to its end: decode, segment, crop, write the image.  dl, seg and wr
\* say what the download, the transformer model and cv2.imwrite do.
Attempt(i) ==
    /\ tasks[i].pc = "download"
    /\ \E dl \in {"ok", "fail"}, seg \in {"answer", "raise"},
          wr \in {"ok", "false", "raise"} :
          LET used == (IF dl = "fail" /\ backend.items[i].reachable
                       THEN 1 ELSE 0)
                      + (IF seg = "raise" THEN 1 ELSE 0)
                      + (IF wr # "ok" THEN 1 ELSE 0)
              s == Segmented(i, tasks[i], seg)
          IN  /\ dl = "ok" => backend.items[i].reachable
              /\ dl = "fail" => seg = "answer" /\ wr = "ok"
              /\ seg = "raise" => backend.transformer_model
              /\ used <= faults
              /\ faults' = faults - used
              /\ IF dl = "fail"
                 THEN /\ AttemptFailed(i, tasks[i])
                      /\ UNCHANGED new_dataset
                 ELSE IF wr = "raise"
                 THEN /\ AttemptFailed(i, s.locals)
                      /\ UNCHANGED new_dataset
                 ELSE /\ new_dataset' =
                             IF wr = "ok"
                             THEN [new_dataset EXCEPT ![i].image = s.image_data]
                             ELSE new_dataset
                      /\ prep' = [prep EXCEPT !.downloaded = @ + 1]
                      /\ tasks' = [tasks EXCEPT ![i] =
                                      [s.locals EXCEPT !.pc = "annotations",
                                                       !.image_downloaded = TRUE]]
                      /\ UNCHANGED semaphore
    /\ UNCHANGED <<backend, reruns>>
    /\ UNCHANGED not_preparer

\* Lines 1184-1190 after asyncio.sleep (line 1299): the next attempt sends
\* its download request.
Backoff(i) ==
    /\ tasks[i].pc = "sleep"
    /\ tasks' = [tasks EXCEPT ![i].pc = "download", ![i].retry = @ + 1]
    /\ UNCHANGED <<prep, semaphore, new_dataset, backend, faults, reruns>>
    /\ UNCHANGED not_preparer

\* Lines 1423-1429 without the handler: the exception leaves the task and
\* asyncio.gather, and the call raises.
LabelsFailedAborts(i) ==
    /\ tasks' = [tasks EXCEPT ![i].pc = "done"]
    /\ prep' = [prep EXCEPT !.pc = "done", !.outcome = "raised",
                            !.detail = "Dataset preparation failed"]
    /\ semaphore' = semaphore + 1

\* Lines 1423-1429 without the entry in errors.
LabelsFailedSilent(i) ==
    /\ tasks' = [tasks EXCEPT ![i].pc = "done"]
    /\ UNCHANGED prep
    /\ semaphore' = semaphore + 1

\* Lines 1423-1429: the annotation step raised: a labels error is recorded
\* and the task returns.
LabelsFailed(i) ==
    /\ tasks' = [tasks EXCEPT ![i].pc = "done"]
    /\ prep' = [prep EXCEPT !.errors =
                   Append(@, [imageId |-> i, stage |-> "labels"])]
    /\ semaphore' = semaphore + 1

\* Lines 1346-1421 up to the opening of the label file: the text is built and
\* the file is being opened.
Convert(i, annotations) ==
    /\ tasks' = [tasks EXCEPT ![i].pc = "write_label",
                              ![i].annotations = annotations,
                              ![i].text = label_text(annotations,
                                                     tasks[i].crop_offset,
                                                     tasks[i].frame)]
    /\ UNCHANGED <<prep, semaphore>>

\* Lines 1313-1331: the answer of /api/annotations/all arrives.
FetchAnnotations(i) ==
    /\ tasks[i].pc = "annotations"
    /\ LET item == backend.items[i] IN
       \/ /\ item.all_status \in {200, 404}
          /\ LET annotations == IF item.all_status = 404 THEN << >>
                                ELSE item.all
             IN  IF Len(annotations) = 0
                 THEN /\ tasks' = [tasks EXCEPT ![i].pc = "alternative"]
                      /\ UNCHANGED <<prep, semaphore>>
                 ELSE Convert(i, annotations)
          /\ UNCHANGED faults
       \/ /\ item.all_status \notin {200, 404} \/ faults > 0
          /\ faults' = IF item.all_status \notin {200, 404} THEN faults
                       ELSE faults - 1
          /\ LabelsFailed(i)
    /\ UNCHANGED <<new_dataset, backend, reruns>>
    /\ UNCHANGED not_preparer

\* Lines 1333-1343: the answer of /api/annotations/image/<id> arrives, or
\* the request fails, which is passed over.
FetchAlternative(i) ==
    /\ tasks[i].pc = "alternative"
    /\ LET item == backend.items[i] IN
       \/ /\ Convert(i, IF item.image_status = 200 THEN item.image ELSE << >>)
          /\ UNCHANGED faults
       \/ /\ faults > 0
          /\ faults' = faults - 1
          /\ Convert(i, << >>)
    /\ UNCHANGED <<new_dataset, backend, reruns>>
    /\ UNCHANGED not_preparer

\* Lines 1412-1421 with the label file opened for appending.
WriteLabelAppending(i) ==
    /\ tasks[i].pc = "write_label"
    /\ \/ /\ new_dataset' = [new_dataset EXCEPT ![i].label =
                                [exists |-> TRUE,
                                 text |-> new_dataset[i].label.text
                                          \o tasks[i].text]]
          /\ prep' = [prep EXCEPT !.labeled = @ + 1]
          /\ tasks' = [tasks EXCEPT ![i].pc = "done"]
          /\ semaphore' = semaphore + 1
          /\ UNCHANGED faults
       \/ /\ faults > 0
          /\ faults' = faults - 1
          /\ \/ UNCHANGED new_dataset
             \/ new_dataset' = [new_dataset EXCEPT ![i].label =
                                   [exists |-> TRUE, text |-> << >>]]
          /\ LabelsFailed(i)
    /\ UNCHANGED <<backend, reruns>>
    /\ UNCHANGED not_preparer

\* Lines 1412-1421: the label file is opened for writing and written; the
\* opening may fail, and so may the writing, after the file was truncated.
WriteLabel(i) ==
    /\ tasks[i].pc = "write_label"
    /\ \/ /\ new_dataset' = [new_dataset EXCEPT ![i].label =
                                [exists |-> TRUE, text |-> tasks[i].text]]
          /\ prep' = [prep EXCEPT !.labeled = @ + 1]
          /\ tasks' = [tasks EXCEPT ![i].pc = "done"]
          /\ semaphore' = semaphore + 1
          /\ UNCHANGED faults
       \/ /\ faults > 0
          /\ faults' = faults - 1
          /\ \/ UNCHANGED new_dataset
             \/ new_dataset' = [new_dataset EXCEPT ![i].label =
                                   [exists |-> TRUE, text |-> << >>]]
          /\ LabelsFailed(i)
    /\ UNCHANGED <<backend, reruns>>
    /\ UNCHANGED not_preparer

process_image(i) ==
    \/ Acquire(i)
    \/ Attempt(i)
    \/ Backoff(i)
    \/ FetchAnnotations(i)
    \/ FetchAlternative(i)
    \/ WriteLabel(i)

\* Lines 1436-1457: every task has returned; the summary is built and
\* returned.
Gather ==
    /\ prep.pc = "gather"
    /\ \A i \in ItemIds : tasks[i].pc \in {"none", "done"}
    /\ prep' = [prep EXCEPT !.pc = "done", !.outcome = "summary"]
    /\ UNCHANGED <<tasks, semaphore, new_dataset, backend, faults, reruns>>
    /\ UNCHANGED not_preparer

\* The response has been sent; the endpoint may be called again.
PrepareReturn ==
    /\ prep.pc = "done"
    /\ prep' = [prep EXCEPT !.pc = "idle"]
    /\ reruns' = [reruns EXCEPT !.count = @ + 1,
                                !.first = IF reruns.count = 0
                                          THEN new_dataset ELSE @]
    /\ UNCHANGED <<tasks, semaphore, new_dataset, backend, faults>>
    /\ UNCHANGED not_preparer

prepare_retraining_dataset ==
    \/ PrepareBegin
    \/ FetchImages
    \/ \E i \in ItemIds : process_image(i)
    \/ Gather
    \/ PrepareReturn

\* The backend of a run: the items 1..n listed, each of one of the kinds.
Backends(n, kinds, loaded) ==
    {[images_status |-> status, transformer_model |-> tm, items |-> items] :
        status \in {200, 500}, tm \in loaded,
        items \in {f \in [ItemIds -> kinds \cup {Unlisted}] :
                      \A i \in ItemIds : f[i].listed <=> i <= n}}

PreparerStart(limit) ==
    /\ prep = NoCall
    /\ tasks = [i \in ItemIds |-> NoTask]
    /\ semaphore = 0
    /\ new_dataset = NoFiles
    /\ reruns = [count |-> 0, limit |-> limit, first |-> NoFiles]

\* One call on at most MaxItems items of any kind, with transient failures.
PreparerInit ==
    /\ PreparerStart(1)
    /\ backend \in UNION {Backends(n, ItemKinds, BOOLEAN) : n \in 1..MaxItems}
    /\ faults = MaxFaults

InitPrepare ==
    TrainingQuiet /\ RegistryQuiet /\ PipelineQuiet /\ PreparerInit

SpecPrepare == InitPrepare /\ [][prepare_retraining_dataset]_vars

\* One call on one item more than the semaphore has permits, without
\* transient failures: the first item of any of three kinds, the others
\* plain.
PreparerWideInit ==
    /\ PreparerStart(1)
    /\ backend \in
           {b \in Backends(semaphore_permits + 1,
                           {PlainItem, UnreachableItem, EmptyItem}, {TRUE}) :
               /\ b.images_status = 200
               /\ \A i \in ItemIds : i > 1 => b.items[i] = PlainItem}
    /\ faults = 0

\* One call on one item with any region and any list of at most two
\* annotations, with at most one transient failure.
PreparerLabelsInit ==
    /\ PreparerStart(1)
    /\ backend \in
           {[images_status |-> 200, transformer_model |-> tm,
             items |-> [i \in ItemIds |-> IF i = 1 THEN item ELSE Unlisted]] :
               tm \in BOOLEAN, item \in LabelKinds}
    /\ faults = 1

InitLabels ==
    TrainingQuiet /\ RegistryQuiet /\ PipelineQuiet /\ PreparerLabelsInit

SpecLabels == InitLabels /\ [][prepare_retraining_dataset]_vars

\* Two calls in a row on at most MaxItems items of any kind, the backend and
\* the transformer model answering the second as they answered the first.
PreparerRerunInit ==
    /\ PreparerStart(2)
    /\ backend \in UNION {Backends(n, ItemKinds, BOOLEAN) : n \in 1..MaxItems}
    /\ faults = 0

InitRerun ==
    TrainingQuiet /\ RegistryQuiet /\ PipelineQuiet /\ PreparerRerunInit

SpecRerun == InitRerun /\ [][prepare_retraining_dataset]_vars

InitPrepareWide ==
    TrainingQuiet /\ RegistryQuiet /\ PipelineQuiet /\ PreparerWideInit

SpecPrepareWide == InitPrepareWide /\ [][prepare_retraining_dataset]_vars

\* ===================================== training next to the model registry
\* The process serving with the default defect model loaded from
\* weights/defects/best.pt, that file and a retrained one on disk, and no
\* sidecar.
RegistryServing ==
    /\ detector = [transformer_model |-> TRUE, defect_model |-> P_base,
                   defect_model_path |-> P_base]
    /\ active_model_info = InfoOf(P_base, 0)
    /\ active_model_file = NoFile
    /\ model_files = {Resolve(P_base), Resolve(P_new)}
    /\ model_lock = "free"
    /\ boot = "serving"
    /\ mreq = NoSelect
    /\ vreq = NoDetect
    /\ mresp = NoAnswer

InitBase ==
    /\ TrainingInit
    /\ fs = [new_dataset |-> TRUE, images |-> "some", labels |-> "some",
             base |-> TRUE, base_train |-> TRUE]
    /\ RegistryServing /\ PipelineQuiet /\ PreparerQuiet

\* start() with or without a base model, the worker up to the loading of
\* the base model (lines 742-773), and select().  start_retraining and
\* select_model are coroutines of one event loop and neither awaits before
\* its work is done, so the steps of one are not taken within the other;
\* the worker is a thread and runs at any time.
NextBase ==
    \/ mreq.pc = "none" /\ StartCheckAnyBase
    \/ mreq.pc = "none" /\ StartValidate
    \/ mreq.pc = "none" /\ StartReset
    \/ mreq.pc = "none" /\ StartSubmit
    \/ \E w \in Workers :
          \/ TakeJob(w)
          \/ WorkerInit(w)
          \/ WorkerPrepare(w)
          \/ WorkerWarnings(w)
          \/ WorkerLoad(w)
    \/ loop = "free" /\ select_model

SpecBase == InitBase /\ [][NextBase]_vars

\* get_training_status as the event loop runs it: not within select_model.
StatusRead == mreq.pc = "none" /\ get_training_status

\* The two locks side by side: the training endpoints and the whole worker
\* with training_lock, select_model and get_active_model with model_lock.
\* The handlers are coroutines of one event loop and take their steps one
\* handler at a time; the worker is a thread.
NextLocks ==
    \/ mreq.pc = "none" /\ StartCheck
    \/ mreq.pc = "none" /\ StartValidate
    \/ mreq.pc = "none" /\ StartReset
    \/ mreq.pc = "none" /\ StartSubmit
    \/ mreq.pc = "none" /\ stop_retraining
    \/ StatusRead
    \/ training_executor
    \/ loop = "free" /\ get_active_model
    \/ loop = "free" /\ SelectValidateNew
    \/ loop = "free" /\ SelectAcquire
    \/ loop = "free" /\ SelectUnload
    \/ loop = "free" /\ SelectLoad
    \/ loop = "free" /\ SelectRecord
    \/ loop = "free" /\ SelectPersist
    \/ loop = "free" /\ SelectReturn
    \/ loop = "free" /\ SelectEnd

SpecLocks == InitBase /\ [][NextLocks]_vars

\* ================================================================ claims
Executing == {w \in Workers : workers[w].pc # "idle"}

\* C1: start() is accepted only when no previously accepted job is still
\* pending or executing, so accepted jobs that have not finished (queued or
\* on a worker) never number more than one.
C1_NoJobQueuedBehindAnother == Len(queue) + Cardinality(Executing) <= 1

\* C2: status changes only along idle -> running -> {done, error, stopped};
\* a terminal status is never changed by the worker or by stop(), and only
\* the reset of an accepted start() takes the record back to idle.
C2_StatusTransitions ==
    [][LET s == training_state.status
           t == training_state'.status
       IN \/ s = t
          \/ s = "idle" /\ t = "running"
          \/ s = "running" /\ t \in Terminal
          \/ s \in Terminal /\ t = "idle" /\ StartReset]_vars

\* C3: a start() made while status is "running" is answered 409, submits
\* no job and leaves the record as it was; the request goes no further.
C3_RunningStartRejected ==
    [][(StartCheck /\ training_state.status = "running") =>
          /\ resp'.op = "start" /\ resp'.code = 409
          /\ training_state' = training_state
          /\ heap' = heap
          /\ queue' = queue
          /\ workers' = workers
          /\ sreq' = NoReq
          /\ loop' = "free"]_vars

C3_Witness ==
    /\ resp.op = "start" /\ resp.code = 409
    /\ training_state.status = "running"
    /\ Len(queue) + Cardinality(Executing) = 1

\* Values of job j in the record: its weights artifact, an epoch metric of
\* its run, a current_epoch or an error written by its worker.
Carries(j) ==
    \/ training_state.weights_path = j
    \/ \E i \in 1..Len(heap[training_state.metrics]) :
          heap[training_state.metrics][i].job = j
    \/ writer.epoch = j
    \/ writer.error = j /\ training_state.error # "None"

ValidCorpus ==
    /\ fs.new_dataset /\ fs.images = "some" /\ fs.labels = "some"
    /\ fs.base

\* C4: with status done a new start() on a valid corpus is accepted; its
\* reset leaves current_epoch = 0, an empty metrics list, no weights_path
\* and no error; and from then on the record carries no value of a job
\* that had finished before the reset.
C4_RestartAfterDone ==
    [][/\ (StartCheck /\ training_state.status = "done")
            => sreq'.pc = "validate" /\ sreq'.seen = "done"
       /\ (StartValidate /\ ValidCorpus) => sreq'.pc = "reset"
       /\ StartReset =>
            /\ sreq'.pc = "submit"
            /\ training_state'.status = "idle"
            /\ training_state'.current_epoch = 0
            /\ heap'[training_state'.metrics] = << >>
            /\ training_state'.weights_path = 0
            /\ training_state'.error = "None"
            /\ training_state'.config = sreq.id
       /\ StartSubmit =>
            /\ resp'.op = "start" /\ resp'.code = 200
            /\ queue' = Append(queue, [id |-> sreq.id, epochs |-> sreq.epochs,
                                        base_model_path |-> P_base])
       /\ \A j \in writer'.settled : ~Carries(j)']_vars

C4_Witness ==
    /\ sreq.pc = "submit" /\ sreq.seen = "done"
    /\ sreq.id - 1 \in writer.settled
    /\ training_state.config = sreq.id
    /\ training_state.current_epoch = 0
    /\ heap[training_state.metrics] = << >>

\* C5: at most one training job is executing on the background worker.
C5_OneJobExecuting == Cardinality(Executing) <= 1

C5_Witness ==
    /\ Cardinality(Executing) = 1
    /\ Len(queue) >= 1
    /\ training_state.status = "stopped"

\* C6: with new_dataset/images missing or empty, start() answers with a
\* 4xx error at its check or its validation, goes no further, submits no
\* job and leaves the record untouched: it is still the initial idle record.
C6_EmptyCorpusRejected ==
    [][(fs.images # "some") =>
          /\ (StartCheck \/ StartValidate) =>
               /\ training_state' = training_state
               /\ heap' = heap
               /\ queue' = queue
               /\ workers' = workers
          /\ StartValidate =>
               /\ resp'.op = "start" /\ resp'.code = 400
               /\ sreq' = NoReq
               /\ loop' = "free"
          /\ training_state' = InitialState
          /\ queue' = << >>
          /\ Executing' = {}]_vars

C6_Witness ==
    /\ fs.new_dataset /\ fs.base /\ fs.images = "empty"
    /\ resp.op = "start" /\ resp.code = 400
    /\ resp.detail = "new_dataset/images is empty or does not exist"
    /\ training_state = InitialState
    /\ queue = << >>

\* Some start() has passed validation.
Accepted ==
    \/ sreq.pc \in {"reset", "submit"}
    \/ queue # << >>
    \/ Executing # {}
    \/ training_state.config # 0

\* C7 as stated: a start() is accepted only if the new dataset and the base
\* dataset both exist and are non-empty.
C7_BothDatasetsNonEmpty ==
    Accepted => /\ fs.new_dataset /\ fs.images = "some" /\ fs.labels = "some"
                /\ fs.base /\ fs.base_train

\* C7 amended: a start() is accepted only if new_dataset exists with
\* non-empty images/ and labels/ and the base dataset directory exists; the
\* contents of the base dataset are not examined.
C7_NewNonEmptyBaseExists ==
    Accepted => /\ fs.new_dataset /\ fs.images = "some" /\ fs.labels = "some"
                /\ fs.base

C7_Witness ==
    /\ fs.base /\ ~fs.base_train
    /\ resp.op = "start" /\ resp.code = 200
    /\ queue # << >>

\* C8: stop() changes the record only when status is running: it then sets
\* status stopped and finished_at (and the "stopped by user" message) and
\* acknowledges; otherwise it answers with an error and changes nothing.
C8_StopFrame ==
    [][stop_retraining =>
          /\ resp'.op = "stop"
          /\ heap' = heap /\ queue' = queue /\ workers' = workers
          /\ IF training_state.status = "running"
             THEN /\ resp'.code = 200
                  /\ training_state'.status = "stopped"
                  /\ training_state'.finished_at = "t"
                  /\ training_state' =
                       [training_state EXCEPT
                          !.status = "stopped", !.finished_at = "t",
                          !.error = "Training stopped by user"]
             ELSE /\ resp'.code = 400
                  /\ training_state' = training_state]_vars

C8_Witness ==
    /\ resp.op = "stop" /\ resp.code = 200
    /\ training_state.status = "stopped"
    /\ training_state.finished_at = "t"
    /\ Executing # {}

\* C9: when a poll of the stream observes done, error or stopped, the
\* generator yields an event carrying that status and then ends; it does
\* not go back to polling.
C9_TerminalStatusClosesStream ==
    [][/\ (StreamSkip \/ StreamYield) /\ stream.snap.status \in Terminal
            => /\ stream'.pc = "yielded"
               /\ stream'.event.status = stream.snap.status
       /\ StreamResume /\ stream.event.status \in Terminal
            => stream'.pc = "closed"]_vars

\* C10: every event the stream emits equals the record as it was at the
\* instant the copy was taken under the lock: status, current_epoch and
\* latest metric of that one instant.
C10_EventIsOneInstant ==
    [][StreamYield =>
          stream'.event = [status |-> stream.snap.status,
                           current_epoch |-> stream.snap.current_epoch,
                           metrics |-> stream.at_lock]]_vars

\* A worker step that raises: control passes to the except block.
Raises(w) ==
    /\ train_model_background(w)
    /\ workers[w].pc # "except" /\ workers'[w].pc = "except"

C12_TempDirRemoved ==
    \A j \in JobIds : JobFinished(j) => j \notin temp_dirs

\* C13: a select request whose canonical path is not below one of the two
\* whitelisted directories is answered with the security error and goes no
\* further, so a request that has passed the checks is for a path below
\* weights/updated_defect or weights/defects.
C13_OnlyDescendantsPass ==
    mreq.pc # "none" => IsDescendant(Resolve(mreq.path))

\* C14: when the load of a select request has raised, active_model_info
\* and the sidecar are what they were when the request came in.
C14_FailedLoadKeepsRecord ==
    mreq.pc = "failed" =>
        /\ active_model_info = mreq.before.info
        /\ active_model_file = mreq.before.file

C14_Witness ==
    /\ mreq.pc = "failed"
    /\ mresp.error = "Failed to load model"
    /\ mreq.before.info.loaded
    /\ mreq.before.info.path # mreq.path
    /\ mreq.before.file.state = "json"

\* C15: a select(p) that answers success leaves the instance loaded from p
\* in the detector, the record with path p and loaded, and the same record
\* in the sidecar; the record and the sidecar are written with the lock
\* held and the new instance already in place.
C15_SuccessfulSelectInstalls ==
    [][/\ SelectReturn =>
            /\ mresp'.ok
            /\ detector'.defect_model = mreq.path
            /\ active_model_info'.path = mreq.path
            /\ active_model_info'.loaded
            /\ active_model_file' =
                 [state |-> "json", info |-> active_model_info']
       /\ (SelectRecord \/ SelectPersist) =>
            /\ model_lock = "select" /\ model_lock' = "select"
            /\ detector.defect_model = mreq.path]_vars

\* C16: at startup the model the sidecar names is loaded exactly when the
\* sidecar holds a record, its path resolves below a whitelisted directory
\* and the file exists (and the load itself does not fail); in every other
\* case the detector and the record stay at the default.
C16_StartupLoadsWhitelistedSidecar ==
    [][StartupBlock =>
          LET f == active_model_file
              good == /\ f.state = "json"
                      /\ IsDescendant(Resolve(f.info.path))
                      /\ Exists(f.info.path, model_files)
          IN IF good /\ mresp'.error # "Could not load persisted active model"
             THEN /\ detector'.defect_model = f.info.path
                  /\ active_model_info' = [f.info EXCEPT !.loaded = TRUE]
             ELSE /\ detector' = detector
                  /\ active_model_info' = active_model_info]_vars

\* C17: a detection request that found a classifier active when it started
\* runs Stage 2 on that instance: it neither uses another one nor reports
\* the classifier as not loaded.
C17_DetectionUsesModelAtStart ==
    [][(/\ DetectRun
        /\ vreq.at_start # NoModel
        /\ mresp'.error \in {"defects_detected", "defect_model_not_loaded"})
          => mresp'.model = vreq.at_start]_vars

\* ------------------------------------------------------------------- C18
\* The call has its response (a verdict, not an exception).
Answered == ppc = "answered" /\ ~verdict.raised

\* C18: whenever the transformer model was run on the image and reported no
\* region above the confidence threshold, the response has severity level
\* NO_TRANSFORMER and an empty detection list, and the defect model was not
\* run for that call.
C18_NoRegionNoClassifier ==
    (/\ ppc = "answered"
     /\ stage1.invoked
     /\ stage1.info.status # "error"
     /\ stage1.regions = 0)
    => /\ verdict.success
       /\ verdict.severity_level = "NO_TRANSFORMER"
       /\ verdict.detections = << >>
       /\ verdict.total_detections = 0
       /\ ~stage2.invoked

\* A call with both models loaded in which the transformer model had a
\* candidate, but none above the threshold.
C18_Witness ==
    /\ Answered
    /\ frame.transformer_model /\ frame.defect_model
    /\ stage1.invoked /\ stage1.candidates > 0 /\ stage1.regions = 0
    /\ verdict.severity_level = "NO_TRANSFORMER"
    /\ verdict.stage1_info.status = "no_transformer_detected"

\* ------------------------------------------------------------------- C19
\* C19: every detection of a response carries the box stage 2 reported on the
\* crop moved by the top-left corner of the padded crop (crop_bbox).
C19_BboxTranslatedByPaddedCrop ==
    Answered =>
        \A i \in 1..Len(verdict.detections) :
            verdict.detections[i].bbox =
                <<stage1.info.crop_bbox[1] + stage2.defects[i].bbox[1],
                  stage1.info.crop_bbox[2] + stage2.defects[i].bbox[2],
                  stage1.info.crop_bbox[1] + stage2.defects[i].bbox[3],
                  stage1.info.crop_bbox[2] + stage2.defects[i].bbox[4]>>

\* ------------------------------------------------------------------- C20
Within(box, width, height) ==
    /\ 0 <= box[1] /\ box[1] <= box[3] /\ box[3] <= width
    /\ 0 <= box[2] /\ box[2] <= box[4] /\ box[4] <= height

\* C20: when the region of stage 1 lies within the image and the boxes of
\* stage 2 lie within the crop it was given, every detection of the response
\* has its box within [0, width] x [0, height] of the original image.
C20_BboxWithinImage ==
    (/\ Answered
     /\ stage2.invoked
     /\ Within(stage1.info.bbox, frame.image[1], frame.image[2])
     /\ \A i \in 1..Len(stage2.defects) :
            Within(stage2.defects[i].bbox, stage2.input[1], stage2.input[2]))
    => \A i \in 1..Len(verdict.detections) :
           Within(verdict.detections[i].bbox, frame.image[1], frame.image[2])

\* A response with a detection that fills a crop which the border of the
\* image has cut on the right and at the bottom, but not on the left.
C20_Witness ==
    /\ Answered
    /\ stage2.invoked
    /\ stage1.info.status = "transformer_detected"
    /\ stage1.info.crop_bbox[1] > 0
    /\ stage1.info.crop_bbox[3] = frame.image[1]
    /\ stage1.info.bbox[3] + padding > frame.image[1]
    /\ \E i \in 1..Len(verdict.detections) :
           verdict.detections[i].bbox = <<0, 0, stage2.input[1], stage2.input[2]>>

\* ------------------------------------------------------------------- C21
\* severity_score is total / n thousandths, kept as the pair <<total, n>>.
ScoreAbove(score, thousandths) == score[1] > thousandths * score[2]
ScoreLeq(s, t) == s[1] * t[2] <= t[1] * s[2]
Rank(level) ==
    CASE level = "LOW" -> 1 [] level = "MEDIUM" -> 2
      [] level = "HIGH" -> 3 [] level = "CRITICAL" -> 4 [] OTHER -> 0

\* Scores a response with detections can carry, for the comparison.
Scores == {<<t, n>> : t \in {0, 150, 300, 301, 450, 500, 501, 720, 800, 801,
                             900, 1000, 1500, 1800}, n \in 1..2}

\* C21: in a response with a located transformer, zero detections give
\* NORMAL, and with detections the level is the step function of the score
\* (above 0.8 CRITICAL, above 0.5 HIGH, above 0.3 MEDIUM, else LOW); no score
\* at least as high gets a lower level.
C21_LevelIsStepFunctionOfScore ==
    (Answered /\ verdict.stage1_info.status = "transformer_detected") =>
        LET score == verdict.severity_score
            level == verdict.severity_level
        IN  IF verdict.total_detections = 0 THEN level = "NORMAL"
            ELSE /\ level = (IF ScoreAbove(score, 800) THEN "CRITICAL"
                             ELSE IF ScoreAbove(score, 500) THEN "HIGH"
                             ELSE IF ScoreAbove(score, 300) THEN "MEDIUM"
                             ELSE "LOW")
                 /\ \A other \in Scores :
                        ScoreLeq(score, other) =>
                            Rank(level) <=
                            Rank(severity_level("transformer_detected",
                                                other[2], other[1]))

\* A response with two detections whose mean score is above 0.8.
C21_Witness ==
    /\ Answered
    /\ verdict.stage1_info.status = "transformer_detected"
    /\ verdict.total_detections = 2
    /\ verdict.severity_score = <<1800, 2>>
    /\ verdict.severity_level = "CRITICAL"

\* ------------------------------------------------------------------- C22
\* C22: a call in which the inference of the transformer model or of the
\* defect model raised ends with an exception, not with a response.
C22_InferenceErrorFailsRequest ==
    (/\ ppc = "answered"
     /\ \/ stage1.invoked /\ stage1.info.status = "error"
        \/ stage2.invoked /\ stage2.info.status = "error")
    => verdict.raised /\ ~verdict.success

\* ------------------------------------------------------------------- C23
\* Tasks between the taking and the giving back of a permit.
Inside == {i \in ItemIds : tasks[i].pc \notin {"none", "queued", "done"}}

\* C23: at every instant of a call at most 5 items are inside the per-item
\* pipeline; once the image list has been handled every item that is not
\* skipped has its task; and the call ends with its summary only when every
\* task has returned.
C23_AtMostFiveInside ==
    /\ Cardinality(Inside) <= 5
    /\ prep.pc = "gather" => \A i \in Filtered : tasks[i].pc # "none"
    /\ prep.outcome = "summary" =>
           \A i \in Filtered : tasks[i].pc = "done"

\* Five items are inside the pipeline and the sixth waits for a permit.
C23_Witness ==
    /\ prep.pc = "gather"
    /\ Cardinality(Filtered) = 6
    /\ Cardinality(Inside) = 5
    /\ semaphore = 0
    /\ \E i \in Filtered : tasks[i].pc = "queued"

\* ------------------------------------------------------------------- C24
ErrorsOf(i, stage) ==
    {k \in 1..Len(prep.errors) :
        prep.errors[k].imageId = i /\ prep.errors[k].stage = stage}

\* C24: an item is attempted at most 3 times; the waits between its attempts
\* are the base delay times 2^attempt, one after every failed attempt but the
\* last; after a successful attempt no further attempt is made; and an item
\* whose 3 attempts failed has exactly one download error, no annotation
\* fetch, no label file, and is not counted as downloaded.
C24_ThreeAttemptsThenAbandoned ==
    /\ \A i \in ItemIds :
        LET t == tasks[i] IN
        /\ t.retry <= max_retries - 1
        /\ Len(t.waits) = (IF t.pc = "sleep" THEN t.retry + 1 ELSE t.retry)
        /\ \A k \in 1..Len(t.waits) : t.waits[k] = retry_delay * 2^(k - 1)
        /\ t.image_downloaded => t.pc \notin {"queued", "download", "sleep"}
        /\ t.pc \in {"annotations", "alternative", "write_label"} =>
               t.image_downloaded
        /\ (t.pc = "done" /\ ~t.image_downloaded) =>
               /\ t.retry = max_retries - 1
               /\ Cardinality(ErrorsOf(i, "download")) = 1
               /\ Cardinality(ErrorsOf(i, "labels")) = 0
               /\ t.annotations = << >>
               /\ ~new_dataset[i].label.exists
        /\ t.image_downloaded => ErrorsOf(i, "download") = {}
    /\ prep.downloaded =
           Cardinality({i \in ItemIds : tasks[i].image_downloaded})

\* An item abandoned after three attempts, next to one that succeeded at its
\* second attempt.
C24_Witness ==
    \E i, j \in ItemIds :
        /\ tasks[i].pc = "done" /\ ~tasks[i].image_downloaded
        /\ tasks[i].waits = <<1, 2>>
        /\ ErrorsOf(i, "download") # {}
        /\ tasks[j].pc = "done" /\ tasks[j].image_downloaded
        /\ tasks[j].waits = <<1>>
        /\ prep.downloaded = 1

\* ------------------------------------------------------------------- C25
\* C25: the call raises only when the image list cannot be fetched; whatever
\* fails for single items, it returns a summary.
C25_RaisesOnlyWithoutImageList ==
    prep.outcome = "raised" => prep.detail = "Failed to fetch images"

\* C25 as amended: the call raises only when the image list cannot be
\* fetched or the output directories cannot be created, and then before any
\* item is processed; once the list is there, whatever fails for single
\* items, every item that is not skipped is processed to its end and the call
\* returns a summary.
C25_RaisesOnlyBeforeItems ==
    /\ prep.outcome = "raised" =>
           /\ prep.detail \in {"Failed to fetch images",
                               "Dataset preparation failed"}
           /\ prep.detail = "Dataset preparation failed" =>
                  prep.total_images = 0
           /\ \A i \in ItemIds : tasks[i].pc = "none"
    /\ (prep.pc \in {"done", "idle"} /\ prep.outcome # "raised"
        /\ reruns.count + (IF prep.pc = "done" THEN 1 ELSE 0) > 0) =>
           /\ prep.outcome = "summary"
           /\ \A i \in Filtered : tasks[i].pc = "done"
           /\ \A i \in Filtered :
                  \/ ErrorsOf(i, "download") # {}
                  \/ ErrorsOf(i, "labels") # {}
                  \/ tasks[i].image_downloaded

\* A summary returned although one item failed at the download stage and the
\* other at the labels stage.
C25_Witness ==
    /\ prep.pc = "done" /\ prep.outcome = "summary"
    /\ \E i, j \in Filtered :
           /\ ErrorsOf(i, "download") # {}
           /\ ErrorsOf(j, "labels") # {}
    /\ Len(prep.errors) = 2
    /\ faults = 0

\* ------------------------------------------------------------------- C26
\* C26: in every summary (and at every moment of the call) downloaded is at
\* most totalImages - skippedAnnotated, and every error carries the id of a
\* listed item that is not ANNOTATED.
C26_CountsAndErrorIds ==
    prep.pc \in {"gather", "done"} /\ prep.outcome # "raised" =>
        /\ prep.downloaded <= prep.total_images - prep.skipped_annotated
        /\ \A k \in 1..Len(prep.errors) :
               LET item == backend.items[prep.errors[k].imageId]
               IN  item.listed /\ item.imageType # "ANNOTATED"

\* A summary over an ANNOTATED item and one that failed.
C26_Witness ==
    /\ prep.pc = "done" /\ prep.outcome = "summary"
    /\ prep.total_images = 2 /\ prep.skipped_annotated = 1
    /\ Len(prep.errors) = 1
    /\ prep.downloaded = 1

\* ------------------------------------------------------------------- C27
\* C27: when the attempt whose image is stored found no region (no model,
\* an exception of the model, or no box), the item is stored as the full
\* image, its annotations are converted with crop offset (0, 0) and the full
\* image dimensions, and no download error is recorded for the item.
C27_NoRegionMeansZeroOffset ==
    \A i \in ItemIds :
        tasks[i].image_downloaded /\ tasks[i].frame = ImageSize =>
            /\ new_dataset[i].image \in
                   {<< >>, <<0, 0, ImageSize[1], ImageSize[2]>>}
            /\ tasks[i].crop_offset = <<0, 0>>
            /\ tasks[i].pc \in {"write_label", "done"}
               /\ tasks[i].annotations # << >> =>
                   tasks[i].text = label_text(tasks[i].annotations,
                                              <<0, 0>>, ImageSize)
            /\ ErrorsOf(i, "download") = {}

\* ------------------------------------------------------------------- C28
\* The label lines of a text, without its line feeds.
LinesOf(text) == SelectSeq(text, LAMBDA e : e # LineFeed)

\* The annotation, moved by the crop offset, has a part of positive area
\* within the frame.
Overlaps(ann, crop_offset, dims) ==
    /\ ann.complete
    /\ Min(dims[1], ann.bboxX2 - crop_offset[1])
           > Max(0, ann.bboxX1 - crop_offset[1])
    /\ Min(dims[2], ann.bboxY2 - crop_offset[2])
           > Max(0, ann.bboxY1 - crop_offset[2])

\* The tasks whose label text has been built.
Converted == {i \in ItemIds : tasks[i].pc = "write_label"}

\* There is one label line per annotation that overlaps the frame, and the
\* skipped annotations have recorded no error.
LinesFromOverlapping(i) ==
    LET t == tasks[i]
        kept == SelectSeq(t.annotations,
                          LAMBDA a : Overlaps(a, t.crop_offset, t.frame))
    IN  /\ Len(LinesOf(t.text)) = Len(kept)
        /\ ErrorsOf(i, "labels") = {}

\* C28 as stated: every label line comes from an annotation that overlaps
\* the frame with positive area after clipping, its four values lie in [0,1]
\* with width and height > 0, and the other annotations give no line and no
\* error.
C28_LinesInUnitSquarePositive ==
    \A i \in Converted :
        /\ LinesFromOverlapping(i)
        /\ \A k \in 1..Len(LinesOf(tasks[i].text)) :
               LET l == LinesOf(tasks[i].text)[k]
               IN  /\ l.x_center \in 0..1000000 /\ l.y_center \in 0..1000000
                   /\ l.w_norm \in 1..1000000 /\ l.h_norm \in 1..1000000

\* C28 amended: as above, but the width and height written are only >= 0:
\* they are positive before the rounding to six decimals.
C28_LinesInUnitSquare ==
    \A i \in Converted :
        /\ LinesFromOverlapping(i)
        /\ \A k \in 1..Len(LinesOf(tasks[i].text)) :
               LET l == LinesOf(tasks[i].text)[k]
               IN  /\ l.x_center \in 0..1000000 /\ l.y_center \in 0..1000000
                   /\ l.w_norm \in 0..1000000 /\ l.h_norm \in 0..1000000

\* A cropped item with an annotation left of the crop and one across its
\* edge: one line, of the second.
C28_Witness ==
    \E i \in Converted :
        /\ tasks[i].crop_offset = <<Px(5), Px(5)>>
        /\ tasks[i].annotations = <<AnnLeftOfCrop, AnnAcrossEdge>>
        /\ Len(LinesOf(tasks[i].text)) = 1

\* ------------------------------------------------------------------- C29
\* C29: an item whose image was stored and whose annotation step did not
\* fail has a label file with one line per surviving annotation, and the
\* file is empty when no annotation survives.
C29_OneLinePerSurvivor ==
    \A i \in ItemIds :
        LET t == tasks[i]
            kept == SelectSeq(t.annotations,
                              LAMBDA a : Overlaps(a, t.crop_offset, t.frame))
            label == new_dataset[i].label
        IN  /\ t.pc = "done" /\ t.image_downloaded
            /\ new_dataset[i].image # << >>
            /\ ErrorsOf(i, "labels") = {}
            => /\ label.exists
               /\ Len(LinesOf(label.text)) = Len(kept)
               /\ Len(kept) = 0 => label.text = << >>

\* ------------------------------------------------------------------- C30
\* C30: with the backend and the transformer model unchanged, the images and
\* labels directories hold after a second call the files and contents they
\* held after the first: nothing is duplicated, in no file.
C30_RerunLeavesSameFiles ==
    reruns.count >= 1 /\ prep.pc \in {"done", "idle"} =>
        new_dataset = reruns.first

\* A second call has returned its summary over a dataset with an image and
\* a label line.
C30_Witness ==
    /\ reruns.count = 2 /\ prep.outcome = "summary"
    /\ prep.labeled >= 1
    /\ \E i \in ItemIds :
          /\ new_dataset[i].image # << >>
          /\ Len(LinesOf(new_dataset[i].label.text)) = 1

\* ------------------------------------------------------------------- C31
\* C31: the metrics list of the record never holds two entries of the same
\* epoch, and its slot i (counted from 0) holds the entry of epoch i + 1.
C31_SlotHoldsItsEpoch ==
    LET metrics == heap[training_state.metrics]
    IN  \A k \in 1..Len(metrics) : metrics[k].epoch = k

\* ------------------------------------------------------------------- C32
\* stop() was acknowledged while job j had not yet reported an epoch: the
\* epoch in flight is at most its first.
StoppedInFirstEpoch(j) ==
    /\ training_state.status = "stopped"
    /\ \E w \in Workers :
          /\ workers[w].job = j
          /\ workers[w].pc \in {"prepare", "warnings", "load", "train"}
          /\ workers[w].ep = 0

\* Job j has reported at most n epochs through the callback.
ReportedAtMost(j, n) ==
    \A w \in Workers : workers[w].job = j => workers[w].ep <= n

\* C32: after stop() was acknowledged the worker finishes the epoch in
\* flight and exits: a job stopped in its first epoch never reports a
\* second one.
C32_NoEpochAfterStop ==
    \A j \in JobIds :
        [](StoppedInFirstEpoch(j) => [](ReportedAtMost(j, 1)))

\* ------------------------------------------------------------------- C33
\* C33: in every state of the record, status done implies a weights path and
\* no error, status error implies an error, and status stopped implies no
\* weights path.
C33_StatusFitsResult ==
    /\ training_state.status = "done" =>
           training_state.weights_path # 0 /\ training_state.error = "None"
    /\ training_state.status = "error" => training_state.error # "None"
    /\ training_state.status = "stopped" => training_state.weights_path = 0

\* ------------------------------------------------------------------- C34
\* C34: a start() that names no base model is submitted with the weights of
\* the defect model that is active in the registry, and its worker loads
\* those.
C34_TrainsFromActiveModel ==
    /\ [][StartCheckAnyBase /\ sreq'.pc = "validate"
          /\ sreq'.base_model_path = << >>
          /\ mreq.pc = "none" /\ detector.defect_model # NoModel =>
              training_config(sreq').base_model_path = detector.defect_model]_vars
    /\ [][StartSubmit => queue' = Append(queue, training_config(sreq))]_vars
    /\ [][\A w \in Workers :
             /\ TakeJob(w) =>
                   workers'[w].base_model_path = Head(queue).base_model_path
             /\ WorkerLoad(w) /\ workers'[w].pc = "train" =>
                   workers'[w].base_model_path = workers[w].base_model_path]_vars

\* ------------------------------------------------------------------- C35
\* A handler is inside the with model_lock block of select_model.
InModelLock == mreq.pc \in {"unload", "load", "record", "persist", "return"}

\* The two locks are never held together and nothing waits for one while
\* holding the other: model_lock is held only by a select_model that is
\* inside its with block, whose steps need nothing else; those steps leave
\* the training record alone; and the steps that write the training record
\* (the sections of training_lock) leave model_lock alone.
LocksApart ==
    /\ [](model_lock # "free" <=> InModelLock)
    /\ [][InModelLock /\ mreq' # mreq => UNCHANGED training_vars]_vars
    /\ [][training_state' # training_state \/ heap' # heap =>
             UNCHANGED <<model_lock, mreq>>]_vars

C36_LoadedMeansLoaded ==
    model_lock = "free" /\ active_model_info.loaded =>
        /\ detector.defect_model # NoModel
        /\ detector.defect_model = active_model_info.path

\* ------------------------------------------------------------------- C37
\* C37: the record is written only by the worker of the job whose start()
\* reset it last (config names that job), so the current epoch and the
\* error are that job's and current_epoch never exceeds total_epochs.
C37_WritesByCurrentJob ==
    /\ writer.epoch \in {0, training_state.config}
    /\ writer.error \in {0, training_state.config}
    /\ training_state.current_epoch <= training_state.total_epochs


\* ------------------------------------------------- the service, scheduled
\* The service of Next under the scheduling the code gives it: the executor
\* thread runs whenever it has something to do (ThreadPoolExecutor, line
\* 204; model.train returns or raises), a start_retraining call that passed
\* its check runs to its return (lines 1492-1568 have no blocking call but
\* the 0.5 s sleep), and the generator of a connected consumer wakes up
\* again after each asyncio.sleep(2) (line 1641). What clients do (start,
\* stop, connect, disconnect) is not forced.
StartHandler == StartValidate \/ StartReset \/ StartSubmit

StreamPoll == StreamSnapshot \/ StreamYield \/ StreamResume \/ StreamSkip

\* Both datasets are on disk, so that every start passes its path checks.
InitFair ==
    /\ TrainingInit
    /\ fs = [new_dataset |-> TRUE, images |-> "some", labels |-> "some",
             base |-> TRUE, base_train |-> TRUE]
    /\ RegistryQuiet /\ PipelineQuiet /\ PreparerQuiet

NextFair ==
    \/ StartCheckOneEpoch
    \/ StartHandler
    \/ stop_retraining
    \/ training_executor
    \/ event_generator

SpecFair ==
    /\ InitFair
    /\ [][NextFair]_vars
    /\ WF_vars(training_executor)
    /\ WF_vars(StartHandler)
    /\ WF_vars(StreamPoll)

\* Job j was accepted and its worker has not left the try block yet: the
\* work item is queued, or the worker thread is before its final writes.
InFlight(j) ==
    \/ \E i \in 1..Len(queue) : queue[i].id = j
    \/ \E w \in Workers : Job(w).job = j /\ Job(w).pc # "cleanup"

\* The worker of job j has just left the try block: the record holds the
\* status its final block or its except block wrote.
Concluded(j) ==
    \E w \in Workers : /\ Job(w).job = j
                       /\ Job(w).pc = "cleanup"
                       /\ StreamFinished(training_state.status)

StreamAttached == stream.pc \in {"poll", "snapped", "yielded"}

\* C38: under fair scheduling every accepted start is followed by the record
\* reaching status done or error through the job's own worker, and a
\* consumer whose stream is open while a job is in flight sees the stream
\* close.
C38_JobsAndStreamsEnd ==
    /\ \A j \in JobIds : InFlight(j) ~> Concluded(j)
    /\ (StreamAttached /\ \E j \in JobIds : InFlight(j)) ~> (stream.pc = "closed")

\* The worker of a job has just written the terminal status and the stream,
\* open meanwhile, has sent it and is about to close.
C38_Witness ==
    /\ stream.pc = "yielded"
    /\ StreamFinished(stream.event.status)
    /\ \E j \in JobIds : Concluded(j)


\* ------------------------------------------------------------------- C39
\* The entries of errors that a stage recorded.
StageErrors(stage) ==
    {k \in 1..Len(prep.errors) : prep.errors[k].stage = stage}

\* C39: during a run labeled <= downloaded and no item has more than one
\* entry in errors; in the summary downloaded plus the download errors is
\* total_images - skipped_annotated, and labeled plus the labels errors is
\* downloaded.
C39_CountersAddUp ==
    /\ prep.labeled <= prep.downloaded
    /\ \A i \in ItemIds :
          Cardinality({k \in 1..Len(prep.errors) : prep.errors[k].imageId = i}) <= 1
    /\ prep.outcome = "summary" =>
          /\ prep.downloaded + Cardinality(StageErrors("download"))
                = prep.total_images - prep.skipped_annotated
          /\ prep.labeled + Cardinality(StageErrors("labels")) = prep.downloaded

\* A summary of a run that skipped nothing and lost one item at each stage.
C39_Witness ==
    /\ prep.pc = "done" /\ prep.outcome = "summary"
    /\ prep.total_images = 2 /\ prep.skipped_annotated = 0
    /\ Cardinality(StageErrors("download")) = 1
    /\ Cardinality(StageErrors("labels")) = 1
    /\ prep.downloaded = 1 /\ prep.labeled = 0


\* ----------------------------------------------- the preparer, scheduled
\* One call on one item more than the semaphore has permits. The first item
\* has no annotations (an empty label file is written), is unreachable (its
\* download is abandoned after the last attempt) or has no readable
\* annotations (a labels error); the others have no annotations.
PreparerFairInit ==
    /\ PreparerStart(1)
    /\ backend \in
           {b \in Backends(semaphore_permits + 1,
                           {EmptyItem, UnreachableItem, UnlabelledItem}, {TRUE}) :
               /\ b.images_status = 200
               /\ \A i \in ItemIds : i > 1 => b.items[i] = EmptyItem}
    /\ faults = 0

InitPrepareFair ==
    TrainingQuiet /\ RegistryQuiet /\ PipelineQuiet /\ PreparerFairInit

\* The call under the scheduling asyncio gives it: the coroutine of the call
\* and every task of asyncio.gather (line 1436) run whenever they can, every
\* network call returning or failing. That the endpoint is called, and
\* called again, is not forced.
SpecPrepareFair ==
    /\ InitPrepareFair
    /\ [][prepare_retraining_dataset]_vars
    /\ WF_vars(FetchImages \/ Gather)
    /\ \A i \in ItemIds : WF_vars(process_image(i))

\* ------------------------------------------------------------------- C40
AnnotationStage == {"annotations", "alternative", "write_label"}

\* C40: a call that has begun ends, and when it has ended no task is left
\* waiting for a permit or inside the pipeline; no item is attempted more
\* than max_retries times or leaves its annotation stage for anything but
\* its return; and the permits not in the semaphore are held by the items
\* inside the pipeline, so that all of them are back when the summary is
\* built.
C40_PrepareEnds ==
    /\ (prep.pc \in {"fetch", "gather"}) ~> (prep.pc = "done")
    /\ [](prep.pc = "done" => \A i \in ItemIds : tasks[i].pc \in {"none", "done"})
    /\ [](\A i \in ItemIds :
             tasks[i].retry < max_retries /\ Len(tasks[i].waits) < max_retries)
    /\ [][\A i \in ItemIds :
             tasks[i].pc \in AnnotationStage =>
                 tasks'[i].pc \in AnnotationStage \cup {"done"}]_vars
    /\ [](prep.pc = "gather" \/ prep.outcome = "summary" =>
             semaphore + Cardinality(Inside) = semaphore_permits)
    /\ [](prep.outcome = "summary" => semaphore = semaphore_permits)

\* The download of the first item was abandoned and its permit given back:
\* the five other items are inside the pipeline together.
C40_Witness ==
    /\ prep.pc = "gather"
    /\ Cardinality(Filtered) = semaphore_permits + 1
    /\ Cardinality(StageErrors("download")) = 1
    /\ Cardinality(Inside) = semaphore_permits
    /\ semaphore = 0
====
